---- MODULE Spec2Model ----
(***************************************************************************)
(* Completion orchestration of agora-convo-ai-custom-llm-express:          *)
(* one inbound request handled by either backend variant                   *)
(*   "A" = Chat Completions service (processChatCompletion),               *)
(*   "B" = Responses service        (processResponses),                    *)
(* in streaming or non-streaming mode.  Every await of the source is a     *)
(* suspension point and so the boundary between two actions.               *)
(*                                                                         *)
(* Encoding of JavaScript values:                                          *)
(*   - a name or a text is a TLA+ string, UNDEF stands for undefined;      *)
(*   - an argument payload is a sequence of characters (so that the        *)
(*     += accumulation is \o and JSON.parse can inspect it);               *)
(*   - a string is truthy iff it is not empty.                             *)
(***************************************************************************)
EXTENDS Integers, Sequences, FiniteSets, TLC

(***************************************************************************)
(* Bounds of the model                                                     *)
(***************************************************************************)
\* native events consumed from the initiating stream before its last one
MaxEvents == 2
\* native events consumed from the follow-up stream before its last one
MaxFollow == 2
\* entries of message.tool_calls in one Chat Completions chunk
MaxToolCalls == 2
\* items of the output array of an initial Responses object
MaxOutput == 2
\* calls of formatResponseAsCompletion on one and the same value
MaxFormats == 2

(***************************************************************************)
(* Values                                                                  *)
(***************************************************************************)
UNDEF == "<undefined>"

\* the keys of functionMap: the tools the README lists
RegisteredNames == {"sendPhoto", "orderSandwich"}
\* function names a backend may announce ("" is the empty name)
Names == {"", "sendPhoto", "foo"}

\* functionMap[name] is a handler (truthy) exactly for a registered name
functionMap(name) == name \in RegisteredNames

\* an optional value: absent, or present with value v
None == [some |-> FALSE]
Some(v) == [some |-> TRUE, v |-> v]

Message(role, content, name) == [role |-> role, content |-> content, name |-> name]

\* req.body of POST /completion; an absent field is UNDEF (None for messages)
Bodies ==
  { \* every field given
    [messages |-> Some(<< Message("user", "hi", UNDEF),
                          Message("assistant", "yo", UNDEF) >>),
     model |-> "gpt-4o", channel |-> "chan1", userId |-> "user1", appId |-> "app1"],
    \* only messages given
    [messages |-> Some(<< Message("user", "hi", UNDEF) >>),
     model |-> UNDEF, channel |-> UNDEF, userId |-> UNDEF, appId |-> UNDEF],
    \* no messages
    [messages |-> None,
     model |-> "gpt-4o", channel |-> "chan1", userId |-> "user1", appId |-> "app1"],
    \* an empty appId
    [messages |-> Some(<< Message("user", "hi", UNDEF) >>),
     model |-> "gpt-4o", channel |-> "chan1", userId |-> "user1", appId |-> ""] }

\* a destructuring default: it replaces an absent (undefined) field only
Default(value, dflt) == IF value = UNDEF THEN dflt ELSE value

\* the fields the handler destructures from the body, defaults applied
Contexts ==
  { [appId |-> Default(b.appId, "20b7c51ff4c644ab80cf5a4e646b0537"),
     userId |-> Default(b.userId, "111"),
     channel |-> Default(b.channel, "ccc")] : b \in Bodies }

\* config.llm.openaiApiKey
ApiKey == "key"

\* the Authorization header: absent, or its text, 'Bearer ' + rest or rest alone
NoHeader == [present |-> FALSE, bearer |-> FALSE, rest |-> ""]

Header(bearer, rest) == [present |-> TRUE, bearer |-> bearer, rest |-> rest]

AuthHeaders ==
  { NoHeader, Header(TRUE, ApiKey), Header(TRUE, "wrong"), Header(FALSE, ApiKey) }

\* process.env.NODE_ENV
Envs == {"development", "production"}

\* (req.headers.authorization || '').replace('Bearer ', '')
TokenOf(h) == IF h.present THEN h.rest ELSE ""

Request(v, s, b, h, e) ==
  [variant |-> v, stream |-> s, body |-> b,
   messages |-> b.messages,
   ctx |-> [appId |-> Default(b.appId, "20b7c51ff4c644ab80cf5a4e646b0537"),
            userId |-> Default(b.userId, "111"),
            channel |-> Default(b.channel, "ccc")],
   model |-> Default(b.model, "gpt-4o-mini"),
   authorization |-> h, NODE_ENV |-> e]

\* every body with the configured key in a development process, and one body
\* with every header in every environment
Requests ==
  { Request(v, s, b, Header(TRUE, ApiKey), "development") :
      v \in {"A", "B"}, s \in BOOLEAN, b \in Bodies }
  \cup { Request("A", FALSE, b, h, e) :
           b \in { x \in Bodies : x.messages.some /\ x.appId = UNDEF },
           h \in AuthHeaders, e \in Envs }

(***************************************************************************)
(* Context assembly and the request shapes of the two variants             *)
(***************************************************************************)
HARDCODED_RAG_DATA ==
  << << "doc1", "The TEN Framework is a powerful conversational AI platform." >>,
     << "doc2", "Agora Convo AI comes out on March 1st for GA. It will be best in class for quality and reach" >>,
     << "doc3", "Agora is the best realtime engagement platform." >>,
     << "doc4", "Ada Lovelace is the best developer." >> >>

\* lines.join(sep)
RECURSIVE Join(_, _)
Join(lines, sep) ==
  IF lines = <<>> THEN ""
  ELSE IF Len(lines) = 1 THEN lines[1]
  ELSE lines[1] \o sep \o Join(Tail(lines), sep)

getFormattedRagData ==
  Join([i \in 1..Len(HARDCODED_RAG_DATA) |->
          HARDCODED_RAG_DATA[i][1] \o ": \"" \o HARDCODED_RAG_DATA[i][2] \o "\""],
       "\n")

createSystemMessage ==
  Message("system",
          "You have access to the following knowledge:\n" \o getFormattedRagData
          \o "\nAnswer questions using this data and be confident about its contents.",
          UNDEF)

\* the system message placed after the caller's messages
fullMessages_Appended(messages) == messages \o << createSystemMessage >>

\* const fullMessages = [systemMessage, ...messages]
fullMessages(messages) == << createSystemMessage >> \o messages

\* one message of the flattened transcript of the Responses variant
FlatMessage(msg) ==
  IF msg.role = "system" THEN "System: " \o msg.content
  ELSE IF msg.role = "user" THEN "User: " \o msg.content
  ELSE IF msg.role = "assistant" THEN "Assistant: " \o msg.content
  ELSE IF msg.role = "function" THEN "Function (" \o msg.name \o "): " \o msg.content
  ELSE msg.role \o ": " \o msg.content

\* fullMessages.map(...).join('\n\n')
messageContent(full) == Join([i \in 1..Len(full) |-> FlatMessage(full[i])], "\n\n")

\* an argument payload as the text it is
RECURSIVE ArgText(_)
ArgText(a) == IF a = <<>> THEN "" ELSE Head(a) \o ArgText(Tail(a))

\* the function message appended to the caller's messages, not to fullMessages
updatedMessages_FromCaller(full, name, functionResult) ==
  Tail(full) \o << Message("function", functionResult, name) >>

\* updatedMessages of the Chat Completions variant
updatedMessages(full, name, functionResult) ==
  full \o << Message("function", functionResult, name) >>

\* the follow-up input without the turn that describes the call
followUpMessage_NoCallTurn(content, name, args, functionResult) ==
  content \o "\n\nFunction (" \o name \o "): " \o functionResult

\* followUpMessage of the Responses variant
followUpMessage(content, name, args, functionResult) ==
  content \o "\n\nAssistant: I'll call the function '" \o name
  \o "' with these arguments: " \o ArgText(args)
  \o "\n\nFunction (" \o name \o "): " \o functionResult

\* complete argument payloads a backend may send
ArgStrings == { <<>>, <<"{", "}">>, <<"1">>, <<"0">>, <<"{">> }
\* argument fragments of response.function_call_arguments.delta
ArgFragments == { <<"{">>, <<"}">>, <<"1">> }

ToolResults == {"sent"}
Times == {0, 1}
BackendMessages == {"503 upstream"}

(***************************************************************************)
(* JSON.parse over the alphabet { "{", "}", "0", "1" }: the JSON texts      *)
(* are the empty object and the numbers without a leading zero.            *)
(***************************************************************************)
IsDigits(s) == \A i \in 1..Len(s) : s[i] \in {"0", "1"}

IsNumber(s) == Len(s) >= 1 /\ IsDigits(s) /\ (s[1] = "0" => Len(s) = 1)

RECURSIVE NumVal(_)
NumVal(s) ==
  IF s = <<>> THEN 0
  ELSE 10 * NumVal(SubSeq(s, 1, Len(s) - 1)) + (IF s[Len(s)] = "1" THEN 1 ELSE 0)

\* JSON.parse(s): ok = FALSE is the SyntaxError
JSONparse(s) ==
  IF s = <<"{", "}">> THEN [ok |-> TRUE, t |-> "object", v |-> 0]
  ELSE IF IsNumber(s) THEN [ok |-> TRUE, t |-> "number", v |-> NumVal(s)]
  ELSE [ok |-> FALSE, t |-> "error", v |-> 0]

\* JavaScript truthiness of a parsed value: the number 0 is falsy
Truthy(val) == val.ok /\ ~(val.t = "number" /\ val.v = 0)

(***************************************************************************)
(* Native responses                                                        *)
(***************************************************************************)
NoCall == [present |-> FALSE, name |-> UNDEF, arguments |-> <<>>]

\* null
NULL == "<null>"
\* a truthy value that is not a string: the number 7
NUMBER == "<number 7>"
\* an absent arguments payload
UNDEFARGS == << UNDEF >>

\* typeof v === 'string'
IsString(v) == v \notin {UNDEF, NULL, NUMBER}
\* String(v)
StringOf(v) == IF v = NUMBER THEN "7" ELSE v

\* the call_id of an item: absent, a number, or a string as its '_'-separated pieces
NoCallId == [k |-> "undefined", pieces |-> <<>>]
NumberCallId == [k |-> "number", pieces |-> <<>>]
StringCallId(pieces) == [k |-> "string", pieces |-> pieces]

FunctionCalls ==
  { [present |-> TRUE, name |-> n, arguments |-> a] : n \in Names, a \in ArgStrings }

\* a Chat Completions terminal object (native = canonical shape)
ChatResponses ==
  { [api |-> "chat", choices |-> TRUE, finish_reason |-> fr,
     content |-> c, function_call |-> fc] :
      fr \in {"stop", "function_call", "length"}, c \in {UNDEF, "hello"},
      fc \in FunctionCalls \cup {NoCall} }
  \cup { [api |-> "chat", choices |-> FALSE, finish_reason |-> UNDEF,
          content |-> UNDEF, function_call |-> NoCall] }

\* the follow-up object of a Chat Completions request
ChatFinalResponses ==
  { r \in ChatResponses :
      r.choices /\ r.content = "hello"
      /\ r.function_call \in {NoCall, [present |-> TRUE, name |-> "sendPhoto",
                                      arguments |-> <<"{", "}">>]} }

\* items of a Responses output array
FunctionCallItems ==
  { [type |-> "function_call", role |-> UNDEF, name |-> n, arguments |-> a,
     content |-> [k |-> "undefined", s |-> UNDEF, parts |-> <<>>],
     call_id |-> NoCallId] :
      n \in Names, a \in ArgStrings }

TextPart(t) == [type |-> "output_text", text |-> t]

MessageItems ==
  { [type |-> "message", role |-> "assistant", name |-> UNDEF, arguments |-> <<>>,
     content |-> [k |-> "string", s |-> "hello", parts |-> <<>>]],
    [type |-> "message", role |-> "assistant", name |-> UNDEF, arguments |-> <<>>,
     content |-> [k |-> "array", s |-> UNDEF,
                  parts |-> <<TextPart("hel"), TextPart("lo")>>]] }

Items == FunctionCallItems \cup MessageItems

RECURSIVE SeqsUpTo(_, _)
SeqsUpTo(S, n) ==
  IF n = 0 THEN { <<>> }
  ELSE LET shorter == SeqsUpTo(S, n - 1)
       IN  shorter \cup { Append(q, x) : q \in { p \in shorter : Len(p) = n - 1 }, x \in S }

OutputTexts == {UNDEF, "", "hello"}

ResponsesObjects ==
  { [api |-> "responses", id |-> "resp_1", model |-> "gpt-4o-mini",
     outputIsArray |-> TRUE, output |-> o, output_text |-> t] :
      o \in SeqsUpTo(Items, MaxOutput), t \in OutputTexts }

\* the follow-up object of a Responses request
ResponsesFinalObjects ==
  { r \in ResponsesObjects :
      /\ Len(r.output) <= 1
      /\ \A i \in 1..Len(r.output) :
           r.output[i].type = "function_call" =>
             (r.output[i].name = "sendPhoto" /\ r.output[i].arguments = <<"{", "}">>) }

(***************************************************************************)
(* formatResponseAsCompletion                                              *)
(***************************************************************************)
Completion(id, model, now, content, finish, fc) ==
  [api |-> "completion", id |-> id, object |-> "chat.completion", created |-> now,
   model |-> model, index |-> 0, role |-> "assistant", content |-> content,
   function_call |-> fc, finish_reason |-> finish]

IsFunctionCallItem(item) == item.type \in {"function_call", "function_tool_call"}

IsAssistantMessage(item) == item.type = "message" /\ item.role = "assistant"

IsTextPart(c) == c.type \in {"output_text", "text"}

\* output.find(...): index of the first matching item, 0 when there is none
FirstFunctionCallItem(s) ==
  IF \E i \in 1..Len(s) : IsFunctionCallItem(s[i])
  THEN CHOOSE i \in 1..Len(s) :
         IsFunctionCallItem(s[i]) /\ \A j \in 1..(i - 1) : ~IsFunctionCallItem(s[j])
  ELSE 0

FirstAssistantMessage(s) ==
  IF \E i \in 1..Len(s) : IsAssistantMessage(s[i])
  THEN CHOOSE i \in 1..Len(s) :
         IsAssistantMessage(s[i]) /\ \A j \in 1..(i - 1) : ~IsAssistantMessage(s[j])
  ELSE 0

\* textContent += content.text || '' over the typed fragments, in order
RECURSIVE ConcatParts(_)
ConcatParts(parts) ==
  IF parts = <<>> THEN ""
  ELSE (IF IsTextPart(Head(parts)) /\ Head(parts).text # UNDEF
        THEN Head(parts).text ELSE "") \o ConcatParts(Tail(parts))

AssistantText(item) ==
  IF item.content.k = "string" THEN item.content.s
  ELSE IF item.content.k = "array" THEN ConcatParts(item.content.parts)
  ELSE ""

\* items the fallback filter keeps when there is no assistant message
IsTextItem(item) ==
  \/ item.type = "output_text"
  \/ /\ item.type = "message"
     /\ item.content.k = "array"
     /\ \E i \in 1..Len(item.content.parts) : IsTextPart(item.content.parts[i])

RECURSIVE ConcatTextItems(_)
ConcatTextItems(items) ==
  IF items = <<>> THEN ""
  ELSE (IF IsTextItem(Head(items)) /\ Head(items).type = "message"
        THEN ConcatParts(Head(items).content.parts) ELSE "")
       \o ConcatTextItems(Tail(items))

\* the test in front of the function-call completion (lines 908-912)
IsFormattableCall(fc) ==
  /\ IsString(fc.name) \/ fc.call_id.k = "string"
  /\ fc.arguments # UNDEFARGS \/ fc.call_id.k = "string"

\* functionCall.call_id is truthy
CallIdTruthy(fc) ==
  fc.call_id.k = "number" \/ (fc.call_id.k = "string" /\ fc.call_id.pieces # << "" >>)

\* functionCall.name || (call_id ? call_id.split('_')[0] : 'unknown')
FormattedName(fc) ==
  IF fc.name \notin {"", UNDEF, NULL} THEN fc.name
  ELSE IF CallIdTruthy(fc) THEN Head(fc.call_id.pieces)
  ELSE "unknown"

\* a null element of a content array, whose .type the fallback filter reads unguarded
HasNullPart(item) ==
  /\ item.type = "message"
  /\ item.content.k = "array"
  /\ \E i \in 1..Len(item.content.parts) : item.content.parts[i].type = NULL

\* the inputs on which the body raises a TypeError, caught on line 1025
FormatterThrows(response) ==
  \/ response.api = "null"
  \/ /\ ~IsString(response.output_text)
     /\ response.outputIsArray
     /\ LET fcIdx == FirstFunctionCallItem(response.output)
            amIdx == FirstAssistantMessage(response.output)
        IN  IF fcIdx # 0 /\ IsFormattableCall(response.output[fcIdx])
            THEN LET fc == response.output[fcIdx]
                 IN  fc.name \in {"", UNDEF, NULL} /\ fc.call_id.k = "number"
            ELSE /\ amIdx = 0
                 /\ \E i \in 1..Len(response.output) : HasNullPart(response.output[i])

\* the completion of the catch block (lines 1025-1043)
Placeholder(now) ==
  Completion("fallback_id", "unknown", now,
             "Error formatting response. Please try again.", "stop", NoCall)

\* an empty text returned as content null
tryFormat_NullContent(response, now) ==
  LET responseId == IF IsString(response.id) THEN response.id ELSE "response_id"
      responseModel == IF IsString(response.model) THEN response.model ELSE "unknown_model"
  IN
  IF IsString(response.output_text)
  THEN Completion(responseId, responseModel, now, response.output_text, "stop", NoCall)
  ELSE IF ~response.outputIsArray
  THEN Completion(responseId, responseModel, now, "", "stop", NoCall)
  ELSE LET fcIdx == FirstFunctionCallItem(response.output)
           amIdx == FirstAssistantMessage(response.output)
       IN  IF fcIdx # 0 /\ IsFormattableCall(response.output[fcIdx])
           THEN LET fc == response.output[fcIdx]
                IN  Completion(responseId, responseModel, now, NULL, "function_call",
                      [present |-> TRUE,
                       name |-> FormattedName(fc),
                       arguments |-> IF fc.arguments \in {<<>>, UNDEFARGS}
                                     THEN <<"{", "}">> ELSE fc.arguments])
           ELSE LET found ==
                      IF amIdx # 0 THEN AssistantText(response.output[amIdx])
                      ELSE ConcatTextItems(response.output)
                    textContent ==
                      IF found = "" /\ response.output_text \notin {UNDEF, NULL}
                      THEN StringOf(response.output_text) ELSE found
                IN  Completion(responseId, responseModel, now,
                               IF textContent = "" THEN NULL ELSE textContent,
                               "stop", NoCall)

\* the try block (lines 853-1024) on an input that raises nothing
tryFormat(response, now) ==
  LET responseId == IF IsString(response.id) THEN response.id ELSE "response_id"
      responseModel == IF IsString(response.model) THEN response.model ELSE "unknown_model"
  IN
  IF IsString(response.output_text)
  THEN \* typeof response.output_text === 'string': the first test of the body
       Completion(responseId, responseModel, now, response.output_text, "stop", NoCall)
  ELSE IF ~response.outputIsArray
  THEN Completion(responseId, responseModel, now, "", "stop", NoCall)
  ELSE LET fcIdx == FirstFunctionCallItem(response.output)
           amIdx == FirstAssistantMessage(response.output)
       IN  IF fcIdx # 0 /\ IsFormattableCall(response.output[fcIdx])
           THEN LET fc == response.output[fcIdx]
                IN  Completion(responseId, responseModel, now, NULL, "function_call",
                      [present |-> TRUE,
                       name |-> FormattedName(fc),
                       arguments |-> IF fc.arguments \in {<<>>, UNDEFARGS}
                                     THEN <<"{", "}">> ELSE fc.arguments])
           ELSE LET found ==
                      IF amIdx # 0 THEN AssistantText(response.output[amIdx])
                      ELSE ConcatTextItems(response.output)
                    textContent ==
                      IF found = "" /\ response.output_text \notin {UNDEF, NULL}
                      THEN StringOf(response.output_text) ELSE found
                IN  Completion(responseId, responseModel, now, textContent, "stop", NoCall)

\* an exception leaving the function
Thrown(now) == [api |-> "thrown", created |-> now]

\* the catch block rethrowing
formatResponseAsCompletion_Rethrows(response, now) ==
  IF FormatterThrows(response) THEN Thrown(now) ELSE tryFormat(response, now)

formatResponseAsCompletion(response, now) ==
  IF FormatterThrows(response) THEN Placeholder(now) ELSE tryFormat(response, now)

(***************************************************************************)
(* State                                                                   *)
(***************************************************************************)
VARIABLES
  req,            \* the inbound request: variant, stream, ctx, model
  pc,             \* where the request's execution chain is suspended
  backendCalls,   \* backend calls issued so far, in order
  toolCalls,      \* tool handler invocations so far, in order
  toolResult,     \* what the awaited tool handler returned
  initial,        \* the terminal object of the initial call (non-streaming)
  result,         \* the completion returned to the route (non-streaming)
  failure,        \* the error the request failed with
  functionCallName,
  functionCallArgs,
  functionCallInProgress,
  events1,        \* native events consumed from the initiating stream
  events2,        \* native events consumed from the follow-up stream
  emitted,        \* frames passed to controller.enqueue, in order
  queue,          \* the ReadableStream's internal queue
  streamState,    \* none | readable | closed | errored
  written,        \* frames the route wrote to the HTTP response
  http,           \* state of the HTTP response
  faults,         \* which awaited operations of the request have thrown
  final,          \* the terminal object of the follow-up call (non-streaming)
  fmtIn,          \* a value handed to formatResponseAsCompletion on its own
  fmtOut,         \* what the successive calls of the formatter on fmtIn returned
  disconnect,     \* what had happened when the client closed the connection
  parked,         \* a second request in flight, suspended at one of its awaits
  arrays          \* the message arrays of the request: messages, fullMessages,
                  \* updatedMessages, as they are now

vars == << req, pc, backendCalls, toolCalls, toolResult, initial, result, failure,
           functionCallName, functionCallArgs, functionCallInProgress,
           events1, events2, emitted, queue, streamState, written, http, faults,
           final, fmtIn, fmtOut, disconnect, parked, arrays >>

\* the arrays when the handler is entered: the caller's messages alone
NewArrays(r) ==
  [messages |-> IF r.messages.some THEN r.messages.v ELSE <<>>,
   fullMessages |-> <<>>, updatedMessages |-> <<>>]

\* const fullMessages = [systemMessage, ...messages]: a new array
Assemble(a) == [a EXCEPT !.fullMessages = fullMessages(a.messages)]

\* fullMessages.push(...): the function message pushed onto fullMessages itself
SpreadAppend_Push(a, name, functionResult) ==
  [a EXCEPT !.fullMessages = updatedMessages(a.fullMessages, name, functionResult),
            !.updatedMessages = updatedMessages(a.fullMessages, name, functionResult)]

\* const updatedMessages = [...fullMessages, {...}]: a new array
SpreadAppend(a, name, functionResult) ==
  [a EXCEPT !.updatedMessages = updatedMessages(a.fullMessages, name, functionResult)]

\* nothing of a request has happened yet
Idle ==
  /\ arrays = NewArrays(req)
  /\ backendCalls = <<>>
  /\ toolCalls = <<>>
  /\ toolResult = UNDEF
  /\ initial = None
  /\ result = None
  /\ failure = None
  /\ functionCallName = UNDEF
  /\ functionCallArgs = <<>>
  /\ functionCallInProgress = FALSE
  /\ events1 = <<>>
  /\ events2 = <<>>
  /\ emitted = <<>>
  /\ queue = <<>>
  /\ streamState = "none"
  /\ written = <<>>
  /\ http = "pending"
  /\ faults = {}
  /\ final = None
  /\ disconnect = None

Init ==
  /\ req \in Requests
  /\ pc = "arrived"
  /\ Idle
  /\ fmtIn = None
  /\ fmtOut = <<>>
  /\ parked = None

(***************************************************************************)
(* Shared pieces of the handlers                                           *)
(***************************************************************************)
\* the follow-up call always made without stream: true
BackendCall_NeverStreams(phase, streaming, tools, input) ==
  [phase |-> phase, api |-> req.variant,
   stream |-> IF phase = "followup" THEN FALSE ELSE streaming,
   tools |-> tools, model |-> req.model, input |-> input]

\* the tool schemas spread into every call, the follow-up included
BackendCall_AlwaysTools(phase, streaming, tools, input) ==
  [phase |-> phase, api |-> req.variant, stream |-> streaming, tools |-> TRUE,
   model |-> req.model, input |-> input]

BackendCall(phase, streaming, tools, input) ==
  [phase |-> phase, api |-> req.variant, stream |-> streaming, tools |-> tools,
   model |-> req.model, input |-> input]

\* the handler called with appId and userId in each other's place
ToolInvocation_SwappedIds(name, parsedArgs) ==
  [name |-> name, appId |-> req.ctx.userId, userId |-> req.ctx.appId,
   channel |-> req.ctx.channel, args |-> parsedArgs]

\* fn(appId, userId, channel, parsedArgs)
ToolInvocation(name, parsedArgs) ==
  [name |-> name, appId |-> req.ctx.appId, userId |-> req.ctx.userId,
   channel |-> req.ctx.channel, args |-> parsedArgs]

\* res.json(result) of the route
ReturnCompletion(c) ==
  /\ result' = Some(c)
  /\ pc' = "returned"
  /\ http' = "json200"
  /\ UNCHANGED << failure, toolCalls, backendCalls >>

\* the request's promise rejects; the route answers 500 with err.message
ThrowToRoute(prefix, message) ==
  /\ failure' = Some([prefix |-> prefix, message |-> message])
  /\ pc' = "failed"
  /\ http' = "error500"
  /\ UNCHANGED << result, toolCalls, backendCalls >>

\* fn(...) not awaited: the follow-up call leaves while the handler runs
StartTool_NotAwaited(name, parsedArgs) ==
  /\ toolCalls' = Append(toolCalls, ToolInvocation(name, parsedArgs))
  /\ backendCalls' = Append(backendCalls,
       BackendCall("followup", FALSE, FALSE, IF req.variant = "A" THEN <<>> ELSE ""))
  /\ pc' = "tool"
  /\ UNCHANGED << result, failure, http >>

\* await fn(...): the handler is started and the chain suspends on it
StartTool(name, parsedArgs) ==
  /\ toolCalls' = Append(toolCalls, ToolInvocation(name, parsedArgs))
  /\ pc' = "tool"
  /\ UNCHANGED << result, failure, http, backendCalls >>

streamVars == << functionCallName, functionCallArgs, functionCallInProgress,
                 events1, events2, emitted, queue, streamState, written >>

(***************************************************************************)
(* validateRequest, the middleware in front of the route                   *)
(***************************************************************************)
\* lines 4-20: outside development the function returns without calling
\* next() and without answering
validateRequest ==
  /\ pc = "arrived"
  /\ IF req.NODE_ENV = "development"
     THEN IF TokenOf(req.authorization) = "" \/ TokenOf(req.authorization) # ApiKey
          THEN /\ failure' = Some([prefix |-> "", message |-> "Invalid or missing token"])
               /\ pc' = "rejected"
               /\ http' = "error403"
          ELSE /\ pc' = "start"
               /\ UNCHANGED << failure, http >>
     ELSE /\ pc' = "unanswered"
          /\ UNCHANGED << failure, http >>
  /\ UNCHANGED << req, backendCalls, toolCalls, toolResult, initial, result, streamVars,
                  faults, final, fmtIn, fmtOut, disconnect, parked, arrays >>

(***************************************************************************)
(* processChatCompletion / processResponses: the initial backend call      *)
(***************************************************************************)
\* the two tests of the route in front of the call of the service
BodyAccepted == req.messages.some /\ req.ctx.appId # ""

\* res.status(400).json(...)
Route_Reject ==
  /\ pc = "start"
  /\ ~BodyAccepted
  /\ failure' = Some([prefix |-> "",
                      message |-> IF ~req.messages.some
                                  THEN "Missing \"messages\" in request body"
                                  ELSE "Missing \"appId\" in request body"])
  /\ pc' = "rejected"
  /\ http' = "error400"
  /\ UNCHANGED << req, backendCalls, toolCalls, toolResult, initial, result, streamVars >>
  /\ UNCHANGED faults
  /\ UNCHANGED << final, fmtIn, fmtOut, disconnect, parked, arrays >>

\* the input of the initial call in the variant's request shape
InitialInput ==
  IF req.variant = "A" THEN fullMessages(req.messages.v)
  ELSE messageContent(fullMessages(req.messages.v))

IssueInitialCall ==
  /\ pc = "start"
  /\ BodyAccepted
  /\ backendCalls' = Append(backendCalls,
                            BackendCall("initial", req.stream, TRUE, InitialInput))
  /\ arrays' = Assemble(arrays)
  /\ pc' = "await_initial"
  /\ UNCHANGED << req, toolCalls, toolResult, initial, result, failure, http, streamVars >>
  /\ UNCHANGED faults
  /\ UNCHANGED << final, fmtIn, fmtOut, disconnect, parked >>

(***************************************************************************)
(* Chat Completions, non-streaming: processNonStreamingRequest             *)
(***************************************************************************)
\* lines 98-100: finish_reason 'function_call' with a name and arguments
\* the guard with the test of the name alone
ChatHasFunctionCall_NameOnly(r) ==
  /\ r.choices
  /\ r.finish_reason = "function_call"
  /\ r.function_call.present
  /\ r.function_call.name \notin {"", UNDEF}

ChatHasFunctionCall(r) ==
  /\ r.choices
  /\ r.finish_reason = "function_call"
  /\ r.function_call.present
  /\ r.function_call.name \notin {"", UNDEF}
  /\ r.function_call.arguments # <<>>

\* the parse failure logged and swallowed, as the streaming handler does
ChatDecision_SwallowParse(r) ==
  IF ~ChatHasFunctionCall(r) THEN "return"
  ELSE IF ~functionMap(r.function_call.name) THEN "return"
  ELSE IF ~JSONparse(r.function_call.arguments).ok THEN "return"
  ELSE "execute"

\* lines 97-117: what the handler does with the initial object
ChatDecision(r) ==
  IF ~ChatHasFunctionCall(r) THEN "return"
  ELSE IF ~functionMap(r.function_call.name) THEN "return"
  ELSE IF ~JSONparse(r.function_call.arguments).ok THEN "throw"
  ELSE "execute"

Chat_NS_InitialResponse ==
  /\ pc = "await_initial" /\ req.variant = "A" /\ ~req.stream
  /\ \E r \in ChatResponses :
       /\ initial' = Some(r)
       /\ IF ChatDecision(r) = "execute"
          THEN StartTool(r.function_call.name, JSONparse(r.function_call.arguments))
          ELSE IF ChatDecision(r) = "throw"
          THEN ThrowToRoute("", "Invalid function call arguments")
          ELSE ReturnCompletion(r)
  /\ UNCHANGED << req, toolResult, streamVars >>
  /\ UNCHANGED faults
  /\ UNCHANGED << final, fmtIn, fmtOut, disconnect, parked, arrays >>

\* the failed initial call issued once more
Chat_NS_InitialFail_Retry ==
  /\ pc = "await_initial" /\ req.variant = "A" /\ ~req.stream
  /\ "initial_call" \notin faults
  /\ backendCalls' = Append(backendCalls, backendCalls[1])
  /\ UNCHANGED << req, pc, toolCalls, toolResult, initial, result, failure, http,
                  streamVars >>
  /\ faults' = faults \cup {"initial_call"}
  /\ UNCHANGED << final, fmtIn, fmtOut, disconnect, parked, arrays >>

Chat_NS_InitialFail ==
  /\ pc = "await_initial" /\ req.variant = "A" /\ ~req.stream
  /\ \E m \in BackendMessages : ThrowToRoute("", m)
  /\ UNCHANGED << req, toolResult, initial, streamVars >>
  /\ faults' = faults \cup {"initial_call"}
  /\ UNCHANGED << final, fmtIn, fmtOut, disconnect, parked, arrays >>

\* the tool returned: build updatedMessages and issue the follow-up call
Chat_NS_ToolReturn ==
  /\ pc = "tool" /\ req.variant = "A" /\ ~req.stream
  /\ \E r \in ToolResults :
       /\ toolResult' = r
       /\ arrays' = SpreadAppend(arrays, initial.v.function_call.name, r)
       /\ backendCalls' = Append(backendCalls,
            BackendCall("followup", FALSE, FALSE, arrays'.updatedMessages))
  /\ pc' = "await_followup"
  /\ UNCHANGED << req, toolCalls, initial, result, failure, http, streamVars >>
  /\ UNCHANGED faults
  /\ UNCHANGED << final, fmtIn, fmtOut, disconnect, parked >>

Chat_NS_ToolThrow ==
  /\ pc = "tool" /\ req.variant = "A" /\ ~req.stream
  /\ ThrowToRoute("", "tool failed")
  /\ UNCHANGED << req, toolResult, initial, streamVars >>
  /\ faults' = faults \cup {"tool"}
  /\ UNCHANGED << final, fmtIn, fmtOut, disconnect, parked, arrays >>

\* the follow-up object put through the detection again
Chat_NS_FinalResponse_Rehop ==
  /\ pc = "await_followup" /\ req.variant = "A" /\ ~req.stream
  /\ \E r \in ChatFinalResponses :
       IF ChatDecision(r) = "execute"
       THEN StartTool(r.function_call.name, JSONparse(r.function_call.arguments))
       ELSE ReturnCompletion(r)
  /\ UNCHANGED << req, toolResult, initial, streamVars >>
  /\ UNCHANGED faults
  /\ UNCHANGED << final, fmtIn, fmtOut, disconnect, parked, arrays >>

Chat_NS_FinalResponse ==
  /\ pc = "await_followup" /\ req.variant = "A" /\ ~req.stream
  /\ \E r \in ChatFinalResponses :
       /\ final' = Some(r)
       /\ UNCHANGED << fmtIn, fmtOut, disconnect, parked, arrays >>
       /\ ReturnCompletion(r)
  /\ UNCHANGED << req, toolResult, initial, streamVars >>
  /\ UNCHANGED faults

Chat_NS_FinalFail ==
  /\ pc = "await_followup" /\ req.variant = "A" /\ ~req.stream
  /\ \E m \in BackendMessages : ThrowToRoute("", m)
  /\ UNCHANGED << req, toolResult, initial, streamVars >>
  /\ faults' = faults \cup {"followup_call"}
  /\ UNCHANGED << final, fmtIn, fmtOut, disconnect, parked, arrays >>

(***************************************************************************)
(* Responses, non-streaming: processNonStreamingRequest                    *)
(***************************************************************************)
IsPlainFunctionCall(item) == item.type = "function_call"

FirstPlainFunctionCall(s) ==
  IF \E i \in 1..Len(s) : IsPlainFunctionCall(s[i])
  THEN CHOOSE i \in 1..Len(s) :
         IsPlainFunctionCall(s[i]) /\ \A j \in 1..(i - 1) : ~IsPlainFunctionCall(s[j])
  ELSE 0

\* the catch rethrowing without the message of the error it caught
ResponsesThrow_Unknown(message) ==
  ThrowToRoute("OpenAI Responses API error: ", "Unknown error")

\* the catch of lines 520-539 rethrows every error of the body with a prefix
ResponsesThrow(message) == ThrowToRoute("OpenAI Responses API error: ", message)

NoContentObject(r) ==
  [api |-> "responses", id |-> r.id, model |-> r.model,
   outputIsArray |-> TRUE, output |-> <<>>,
   output_text |-> "No content returned from API."]

\* lines 430-519: what the handler does with the initial object
ResponsesDecision(r) ==
  LET fcIdx == FirstPlainFunctionCall(r.output)
  IN  IF r.output = <<>> THEN "empty"
      ELSE IF fcIdx = 0 THEN "format"
      ELSE IF r.output[fcIdx].name \in {"", UNDEF} THEN "format"
      ELSE IF ~functionMap(r.output[fcIdx].name) THEN "format"
      ELSE IF ~JSONparse(r.output[fcIdx].arguments).ok THEN "throw"
      ELSE "execute"

Responses_NS_InitialResponse ==
  /\ pc = "await_initial" /\ req.variant = "B" /\ ~req.stream
  /\ \E r \in ResponsesObjects, now \in Times :
       /\ initial' = Some(r)
       /\ LET fc == r.output[FirstPlainFunctionCall(r.output)]
          IN  IF ResponsesDecision(r) = "execute"
              THEN StartTool(fc.name, JSONparse(fc.arguments))
              ELSE IF ResponsesDecision(r) = "throw"
              THEN ResponsesThrow("Invalid function call arguments")
              ELSE IF ResponsesDecision(r) = "empty"
              THEN ReturnCompletion(formatResponseAsCompletion(NoContentObject(r), now))
              ELSE ReturnCompletion(formatResponseAsCompletion(r, now))
  /\ UNCHANGED << req, toolResult, streamVars >>
  /\ UNCHANGED faults
  /\ UNCHANGED << final, fmtIn, fmtOut, disconnect, parked, arrays >>

Responses_NS_InitialFail ==
  /\ pc = "await_initial" /\ req.variant = "B" /\ ~req.stream
  /\ \E m \in BackendMessages : ResponsesThrow(m)
  /\ UNCHANGED << req, toolResult, initial, streamVars >>
  /\ faults' = faults \cup {"initial_call"}
  /\ UNCHANGED << final, fmtIn, fmtOut, disconnect, parked, arrays >>

Responses_NS_ToolReturn ==
  /\ pc = "tool" /\ req.variant = "B" /\ ~req.stream
  /\ \E r \in ToolResults :
       LET functionCall == initial.v.output[FirstPlainFunctionCall(initial.v.output)]
       IN  /\ toolResult' = r
           /\ backendCalls' = Append(backendCalls,
                BackendCall("followup", FALSE, FALSE,
                  followUpMessage(messageContent(fullMessages(req.messages.v)),
                                  functionCall.name, functionCall.arguments, r)))
  /\ pc' = "await_followup"
  /\ UNCHANGED << req, toolCalls, initial, result, failure, http, streamVars >>
  /\ UNCHANGED faults
  /\ UNCHANGED << final, fmtIn, fmtOut, disconnect, parked, arrays >>

Responses_NS_ToolThrow ==
  /\ pc = "tool" /\ req.variant = "B" /\ ~req.stream
  /\ ResponsesThrow("tool failed")
  /\ UNCHANGED << req, toolResult, initial, streamVars >>
  /\ faults' = faults \cup {"tool"}
  /\ UNCHANGED << final, fmtIn, fmtOut, disconnect, parked, arrays >>

\* the initial object formatted and returned in place of the follow-up object
Responses_NS_FinalResponse_ReturnInitial ==
  /\ pc = "await_followup" /\ req.variant = "B" /\ ~req.stream
  /\ \E r \in ResponsesFinalObjects, now \in Times :
       /\ final' = Some(r)
       /\ UNCHANGED << fmtIn, fmtOut, disconnect, parked, arrays >>
       /\ ReturnCompletion(formatResponseAsCompletion(initial.v, now))
  /\ UNCHANGED << req, toolResult, initial, streamVars >>
  /\ UNCHANGED faults

Responses_NS_FinalResponse ==
  /\ pc = "await_followup" /\ req.variant = "B" /\ ~req.stream
  /\ \E r \in ResponsesFinalObjects, now \in Times :
       /\ final' = Some(r)
       /\ UNCHANGED << fmtIn, fmtOut, disconnect, parked, arrays >>
       /\ ReturnCompletion(formatResponseAsCompletion(r, now))
  /\ UNCHANGED << req, toolResult, initial, streamVars >>
  /\ UNCHANGED faults

Responses_NS_FinalFail ==
  /\ pc = "await_followup" /\ req.variant = "B" /\ ~req.stream
  /\ \E m \in BackendMessages : ResponsesThrow(m)
  /\ UNCHANGED << req, toolResult, initial, streamVars >>
  /\ faults' = faults \cup {"followup_call"}
  /\ UNCHANGED << final, fmtIn, fmtOut, disconnect, parked, arrays >>

NonStreamingNext ==
  \/ Chat_NS_InitialResponse
  \/ Chat_NS_InitialFail
  \/ Chat_NS_ToolReturn
  \/ Chat_NS_ToolThrow
  \/ Chat_NS_FinalResponse
  \/ Chat_NS_FinalFail
  \/ Responses_NS_InitialResponse
  \/ Responses_NS_InitialFail
  \/ Responses_NS_ToolReturn
  \/ Responses_NS_ToolThrow
  \/ Responses_NS_FinalResponse
  \/ Responses_NS_FinalFail

(***************************************************************************)
(* Streaming: frames and the ReadableStream controller                     *)
(***************************************************************************)
\* data: ${JSON.stringify(part)}\n\n of a Chat Completions chunk
PartFrame(p) == [kind |-> "part", part |-> p]

\* data: ${JSON.stringify(chatCompletionChunk)}\n\n; id, object, created and
\* model are the envelope of every chunk and carry nothing of the event
Chunk(content, fcName, fcArgs, finish) ==
  [kind |-> "chunk", content |-> content, fc_name |-> fcName, fc_args |-> fcArgs,
   finish_reason |-> finish]

\* data: [DONE]\n\n
DoneFrame == [kind |-> "done"]

\* data: {"error":"Function call failed"}\n\n
ErrorFrame == [kind |-> "error_frame"]

\* a frame with the stream (1 initiating, 2 follow-up) and the number of
\* native events of that stream observed when it was enqueued
Tag(frame, phase, idx) == [frame |-> frame, phase |-> phase, idx |-> idx]

\* controller.enqueue of each entry, in order
Enqueue(entries) ==
  /\ emitted' = emitted \o entries
  /\ queue' = queue \o entries
  /\ streamState' = streamState

RECURSIVE Reverse(_)
Reverse(q) == IF q = <<>> THEN <<>> ELSE Append(Reverse(Tail(q)), Head(q))

\* the closing frames enqueued last-first
EnqueueAndClose_DoneFirst(entries) ==
  /\ emitted' = emitted \o Reverse(entries)
  /\ queue' = queue \o Reverse(entries)
  /\ streamState' = "closed"

\* controller.enqueue of each entry, then controller.close()
EnqueueAndClose(entries) ==
  /\ emitted' = emitted \o entries
  /\ queue' = queue \o entries
  /\ streamState' = "closed"

\* controller.error(e): the stream is errored and its queue is reset
ControllerError ==
  /\ emitted' = emitted
  /\ queue' = <<>>
  /\ streamState' = "errored"

nsVars == << initial, result, failure >>

(***************************************************************************)
(* Chat Completions, streaming: processStreamingRequest                    *)
(***************************************************************************)
ChatArgFragments == { <<>>, <<"{">>, <<"}">>, <<"0">> }

ChatToolCalls == { [name |-> n, arguments |-> a] : n \in Names, a \in ChatArgFragments }

ChatPart(fr, content, message, tc) ==
  [finish_reason |-> fr, content |-> content, message |-> message, tool_calls |-> tc]

\* chunks of the initiating stream; message = FALSE is a chunk that has no
\* choices[0].message (a chat.completion.chunk carries delta instead)
ChatParts ==
  { ChatPart(UNDEF, "hi", FALSE, <<>>), ChatPart("stop", UNDEF, FALSE, <<>>),
    ChatPart("function_call", UNDEF, FALSE, <<>>) }
  \cup { ChatPart("function_call", UNDEF, TRUE, tc) :
           tc \in SeqsUpTo(ChatToolCalls, MaxToolCalls) }

ChatFollowParts ==
  { ChatPart(UNDEF, "hi", FALSE, <<>>), ChatPart("stop", UNDEF, FALSE, <<>>),
    ChatPart("function_call", UNDEF, TRUE,
             << [name |-> "sendPhoto", arguments |-> <<"{", "}">>] >>) }

\* fc?.forEach(...): the last truthy name, the truthy arguments appended
RECURSIVE AccumulateToolCalls(_, _)
AccumulateToolCalls(acc, tc) ==
  IF tc = <<>> THEN acc
  ELSE AccumulateToolCalls(
         [name |-> IF Head(tc).name # "" THEN Head(tc).name ELSE acc.name,
          args |-> acc.args \o Head(tc).arguments],
         Tail(tc))

\* the guards without the registry lookup
ChatStreamShouldExecute_NoLookup(name, args) ==
  /\ name \notin {"", UNDEF}
  /\ args # <<>>
  /\ Truthy(JSONparse(args))

\* lines 194-205: the guards in front of await fn(...)
ChatStreamShouldExecute(name, args) ==
  /\ name \notin {"", UNDEF}
  /\ args # <<>>
  /\ functionMap(name)
  /\ Truthy(JSONparse(args))

Chat_OpenStream ==
  /\ pc = "await_initial" /\ req.variant = "A" /\ req.stream
  /\ pc' = "stream1"
  /\ streamState' = "readable"
  /\ http' = "streaming"
  /\ UNCHANGED << req, backendCalls, toolCalls, toolResult, nsVars, functionCallName,
                  functionCallArgs, functionCallInProgress, events1, events2, emitted,
                  queue, written >>
  /\ UNCHANGED faults
  /\ UNCHANGED << final, fmtIn, fmtOut, disconnect, parked, arrays >>

Chat_OpenStreamFail ==
  /\ pc = "await_initial" /\ req.variant = "A" /\ req.stream
  /\ \E m \in BackendMessages : ThrowToRoute("", m)
  /\ UNCHANGED << req, toolResult, initial, streamVars >>
  /\ faults' = faults \cup {"initial_call"}
  /\ UNCHANGED << final, fmtIn, fmtOut, disconnect, parked, arrays >>

\* one iteration of for await (const part of initialResponse)
Chat_StreamPart ==
  /\ pc = "stream1" /\ req.variant = "A"
  /\ \E p \in ChatParts :
       /\ p.finish_reason = UNDEF => Len(events1) < MaxEvents
       /\ events1' = Append(events1, p)
       /\ LET n == Len(events1) + 1
              acc == IF p.finish_reason = "function_call" /\ p.message
                     THEN AccumulateToolCalls(
                            [name |-> functionCallName, args |-> functionCallArgs],
                            p.tool_calls)
                     ELSE [name |-> functionCallName, args |-> functionCallArgs]
          IN  IF p.finish_reason = "function_call" /\ ~p.message
              THEN \* choice.message.tool_calls throws a TypeError: the catch
                   /\ ControllerError
                   /\ pc' = "errored"
                   /\ UNCHANGED << functionCallName, functionCallArgs, toolCalls >>
              ELSE /\ functionCallName' = acc.name
                   /\ functionCallArgs' = acc.args
                   /\ IF p.finish_reason = UNDEF
                      THEN /\ Enqueue(<< Tag(PartFrame(p), 1, n) >>)
                           /\ pc' = "stream1"
                           /\ UNCHANGED toolCalls
                      ELSE IF ChatStreamShouldExecute(acc.name, acc.args)
                      THEN /\ Enqueue(<< Tag(PartFrame(p), 1, n) >>)
                           /\ toolCalls' = Append(toolCalls,
                                ToolInvocation(acc.name, JSONparse(acc.args)))
                           /\ pc' = "tool"
                      ELSE /\ EnqueueAndClose(<< Tag(PartFrame(p), 1, n),
                                                 Tag(DoneFrame, 1, n) >>)
                           /\ pc' = "closed"
                           /\ UNCHANGED toolCalls
  /\ UNCHANGED << req, backendCalls, toolResult, nsVars, functionCallInProgress,
                  events2, written, http >>
  /\ UNCHANGED faults
  /\ UNCHANGED << final, fmtIn, fmtOut, disconnect, parked, arrays >>

\* the initiating stream ends and no chunk had a finish_reason: start()
\* returns, the controller is neither closed nor errored
Chat_StreamEnd ==
  /\ pc = "stream1" /\ req.variant = "A"
  /\ pc' = "start_returned"
  /\ UNCHANGED << req, backendCalls, toolCalls, toolResult, nsVars, streamVars, http >>
  /\ UNCHANGED faults
  /\ UNCHANGED << final, fmtIn, fmtOut, disconnect, parked, arrays >>

Chat_StreamFail ==
  /\ pc = "stream1" /\ req.variant = "A"
  /\ ControllerError
  /\ pc' = "errored"
  /\ UNCHANGED << req, backendCalls, toolCalls, toolResult, nsVars, functionCallName,
                  functionCallArgs, functionCallInProgress, events1, events2, written,
                  http >>
  /\ faults' = faults \cup {"initial_stream"}
  /\ UNCHANGED << final, fmtIn, fmtOut, disconnect, parked, arrays >>

Chat_S_ToolReturn ==
  /\ pc = "tool" /\ req.variant = "A" /\ req.stream
  /\ \E r \in ToolResults :
       /\ toolResult' = r
       /\ arrays' = SpreadAppend(arrays, functionCallName, r)
       /\ backendCalls' = Append(backendCalls,
            BackendCall("followup", TRUE, FALSE, arrays'.updatedMessages))
  /\ pc' = "await_followup"
  /\ UNCHANGED << req, toolCalls, nsVars, streamVars, http >>
  /\ UNCHANGED faults
  /\ UNCHANGED << final, fmtIn, fmtOut, disconnect, parked >>

Chat_S_ToolThrow ==
  /\ pc = "tool" /\ req.variant = "A" /\ req.stream
  /\ ControllerError
  /\ pc' = "errored"
  /\ UNCHANGED << req, backendCalls, toolCalls, toolResult, nsVars, functionCallName,
                  functionCallArgs, functionCallInProgress, events1, events2, written,
                  http >>
  /\ faults' = faults \cup {"tool"}
  /\ UNCHANGED << final, fmtIn, fmtOut, disconnect, parked, arrays >>

Chat_FollowOpen ==
  /\ pc = "await_followup" /\ req.variant = "A" /\ req.stream
  /\ pc' = "stream2"
  /\ UNCHANGED << req, backendCalls, toolCalls, toolResult, nsVars, streamVars, http >>
  /\ UNCHANGED faults
  /\ UNCHANGED << final, fmtIn, fmtOut, disconnect, parked, arrays >>

Chat_FollowOpenFail ==
  /\ pc = "await_followup" /\ req.variant = "A" /\ req.stream
  /\ ControllerError
  /\ pc' = "errored"
  /\ UNCHANGED << req, backendCalls, toolCalls, toolResult, nsVars, functionCallName,
                  functionCallArgs, functionCallInProgress, events1, events2, written,
                  http >>
  /\ faults' = faults \cup {"followup_call"}
  /\ UNCHANGED << final, fmtIn, fmtOut, disconnect, parked, arrays >>

\* one iteration of for await (const part2 of finalResponse)
Chat_FollowPart ==
  /\ pc = "stream2" /\ req.variant = "A"
  /\ Len(events2) < MaxFollow
  /\ \E p \in ChatFollowParts :
       /\ events2' = Append(events2, p)
       /\ Enqueue(<< Tag(PartFrame(p), 2, Len(events2) + 1) >>)
  /\ UNCHANGED << req, pc, backendCalls, toolCalls, toolResult, nsVars, functionCallName,
                  functionCallArgs, functionCallInProgress, events1, written, http >>
  /\ UNCHANGED faults
  /\ UNCHANGED << final, fmtIn, fmtOut, disconnect, parked, arrays >>

Chat_FollowEnd ==
  /\ pc = "stream2" /\ req.variant = "A"
  /\ EnqueueAndClose(<< Tag(DoneFrame, 2, Len(events2)) >>)
  /\ pc' = "closed"
  /\ UNCHANGED << req, backendCalls, toolCalls, toolResult, nsVars, functionCallName,
                  functionCallArgs, functionCallInProgress, events1, events2, written,
                  http >>
  /\ UNCHANGED faults
  /\ UNCHANGED << final, fmtIn, fmtOut, disconnect, parked, arrays >>

Chat_FollowFail ==
  /\ pc = "stream2" /\ req.variant = "A"
  /\ ControllerError
  /\ pc' = "errored"
  /\ UNCHANGED << req, backendCalls, toolCalls, toolResult, nsVars, functionCallName,
                  functionCallArgs, functionCallInProgress, events1, events2, written,
                  http >>
  /\ faults' = faults \cup {"followup_stream"}
  /\ UNCHANGED << final, fmtIn, fmtOut, disconnect, parked, arrays >>

ChatStreamingNext ==
  \/ Chat_OpenStream
  \/ Chat_OpenStreamFail
  \/ Chat_StreamPart
  \/ Chat_StreamEnd
  \/ Chat_StreamFail
  \/ Chat_S_ToolReturn
  \/ Chat_S_ToolThrow
  \/ Chat_FollowOpen
  \/ Chat_FollowOpenFail
  \/ Chat_FollowPart
  \/ Chat_FollowEnd
  \/ Chat_FollowFail

(***************************************************************************)
(* Responses, streaming: processStreamingRequest                           *)
(***************************************************************************)
Event(type, delta, arguments, itemType, name) ==
  [type |-> type, delta |-> delta, arguments |-> arguments, itemType |-> itemType,
   name |-> name]

CompletedEvent == Event("response.completed", UNDEF, <<>>, UNDEF, UNDEF)

\* arguments of response.function_call_arguments.done
DoneArguments == { <<>>, <<"{", "}">>, <<"0">> }

\* native events other than response.completed
ResponsesEvents ==
  { Event("response.output_text.delta", "hi", <<>>, UNDEF, UNDEF),
    Event("response.output_text.done", UNDEF, <<>>, UNDEF, UNDEF),
    Event("response.refusal.delta", "no", <<>>, UNDEF, UNDEF),
    Event("response.output_item.added", UNDEF, <<>>, "message", UNDEF),
    Event("response.created", UNDEF, <<>>, UNDEF, UNDEF) }
  \cup { Event("response.function_call_arguments.delta", UNDEF, a, UNDEF, UNDEF) :
           a \in ArgFragments }
  \cup { Event("response.function_call_arguments.done", UNDEF, a, UNDEF, UNDEF) :
           a \in DoneArguments }
  \cup { Event("response.output_item.added", UNDEF, <<>>, "function_call", n) :
           n \in Names }

\* native events of the follow-up stream
ResponsesFollowEvents ==
  { Event("response.output_text.delta", "hi", <<>>, UNDEF, UNDEF),
    Event("response.created", UNDEF, <<>>, UNDEF, UNDEF),
    Event("response.output_item.added", UNDEF, <<>>, "function_call", "sendPhoto"),
    Event("response.function_call_arguments.done", UNDEF, <<"{", "}">>, UNDEF, UNDEF),
    CompletedEvent }

IsNameEvent(e) == e.type = "response.output_item.added" /\ e.itemType = "function_call"

\* the dispatch with a last else that forwards an empty content chunk
ChunksOf_EchoUnknown(e) ==
  IF e.type = "response.output_text.delta"
    THEN << Chunk(e.delta, UNDEF, UNDEFARGS, "null") >>
  ELSE IF e.type = "response.function_call_arguments.delta"
    THEN << Chunk(UNDEF, UNDEF, e.arguments, "null") >>
  ELSE IF e.type = "response.function_call_arguments.done"
    THEN << Chunk(UNDEF, UNDEF, UNDEFARGS, "function_call") >>
  ELSE IF IsNameEvent(e)
    THEN << Chunk(UNDEF, e.name, UNDEFARGS, "null") >>
  ELSE IF e.type = "response.refusal.delta"
    THEN << Chunk(e.delta, UNDEF, UNDEFARGS, "null") >>
  ELSE IF e.type \in {"response.output_text.done", "response.output_item.added"}
    THEN << >>
  ELSE << Chunk("", UNDEF, UNDEFARGS, "null") >>

\* the chunks one native event of the initiating stream puts on the output
\* (lines 600-721), response.completed excepted
ChunksOf(e) ==
  IF e.type = "response.output_text.delta"
    THEN << Chunk(e.delta, UNDEF, UNDEFARGS, "null") >>
  ELSE IF e.type = "response.function_call_arguments.delta"
    THEN << Chunk(UNDEF, UNDEF, e.arguments, "null") >>
  ELSE IF e.type = "response.function_call_arguments.done"
    THEN << Chunk(UNDEF, UNDEF, UNDEFARGS, "function_call") >>
  ELSE IF IsNameEvent(e)
    THEN << Chunk(UNDEF, e.name, UNDEFARGS, "null") >>
  ELSE IF e.type = "response.refusal.delta"
    THEN << Chunk(e.delta, UNDEF, UNDEFARGS, "null") >>
  ELSE << >>

\* the accumulators after one native event of the initiating stream
NextName(name, e) == IF IsNameEvent(e) THEN e.name ELSE name

\* the buffer assigned, not appended to, by an arguments delta
NextArgs_Overwrite(args, e) ==
  IF e.type = "response.function_call_arguments.delta" THEN e.arguments
  ELSE IF e.type = "response.function_call_arguments.done"
    THEN (IF e.arguments # <<>> THEN e.arguments ELSE args)
  ELSE args

NextArgs(args, e) ==
  IF e.type = "response.function_call_arguments.delta" THEN args \o e.arguments
  ELSE IF e.type = "response.function_call_arguments.done"
    THEN (IF e.arguments # <<>> THEN e.arguments ELSE args)
  ELSE args

NextInProgress(flag, e) ==
  \/ flag
  \/ e.type \in {"response.function_call_arguments.delta",
                "response.function_call_arguments.done"}
  \/ IsNameEvent(e)

\* the chunks one native event of the follow-up stream puts on the output
FollowChunksOf(e) ==
  IF e.type = "response.output_text.delta"
    THEN << Chunk(e.delta, UNDEF, UNDEFARGS, "null") >>
  ELSE IF e.type = "response.completed"
    THEN << Chunk(UNDEF, UNDEF, UNDEFARGS, "stop") >>
  ELSE << >>

StopChunk == Chunk(UNDEF, UNDEF, UNDEFARGS, "stop")

RECURSIVE TagAll(_, _, _)
TagAll(frames, phase, idx) ==
  IF frames = <<>> THEN <<>>
  ELSE << Tag(Head(frames), phase, idx) >> \o TagAll(Tail(frames), phase, idx)

\* the catch of lines 783-786, then lines 809-812
FunctionCallFailed(phase, idx) ==
  /\ EnqueueAndClose(<< Tag(ErrorFrame, phase, idx), Tag(DoneFrame, phase, idx) >>)
  /\ pc' = "closed"

Responses_OpenStream ==
  /\ pc = "await_initial" /\ req.variant = "B" /\ req.stream
  /\ pc' = "stream1"
  /\ streamState' = "readable"
  /\ http' = "streaming"
  /\ UNCHANGED << req, backendCalls, toolCalls, toolResult, nsVars, functionCallName,
                  functionCallArgs, functionCallInProgress, events1, events2, emitted,
                  queue, written >>
  /\ UNCHANGED faults
  /\ UNCHANGED << final, fmtIn, fmtOut, disconnect, parked, arrays >>

Responses_OpenStreamFail ==
  /\ pc = "await_initial" /\ req.variant = "B" /\ req.stream
  /\ \E m \in BackendMessages :
       ThrowToRoute("OpenAI Responses API streaming error: ", m)
  /\ UNCHANGED << req, toolResult, initial, streamVars >>
  /\ faults' = faults \cup {"initial_call"}
  /\ UNCHANGED << final, fmtIn, fmtOut, disconnect, parked, arrays >>

\* one iteration of for await (const part of stream), part not response.completed
Responses_StreamEvent ==
  /\ pc = "stream1" /\ req.variant = "B"
  /\ Len(events1) < MaxEvents
  /\ \E e \in ResponsesEvents :
       /\ events1' = Append(events1, e)
       /\ functionCallName' = NextName(functionCallName, e)
       /\ functionCallArgs' = NextArgs(functionCallArgs, e)
       /\ functionCallInProgress' = NextInProgress(functionCallInProgress, e)
       /\ Enqueue(TagAll(ChunksOf(e), 1, Len(events1) + 1))
  /\ UNCHANGED << req, pc, backendCalls, toolCalls, toolResult, nsVars, events2,
                  written, http >>
  /\ UNCHANGED faults
  /\ UNCHANGED << final, fmtIn, fmtOut, disconnect, parked, arrays >>

\* the decision taken on the in-progress flag alone
ResponsesStreamDecision_FlagOnly(inProgress, name, args) ==
  IF ~inProgress THEN "stop"
  ELSE IF ~functionMap(name) THEN "unknown"
  ELSE IF ~JSONparse(args).ok THEN "fail"
  ELSE "execute"

\* lines 724-807: what the response.completed iteration does
ResponsesStreamDecision(inProgress, name, args) ==
  IF ~(inProgress /\ name \notin {"", UNDEF}) THEN "stop"
  ELSE IF ~functionMap(name) THEN "unknown"
  ELSE IF ~JSONparse(args).ok THEN "fail"
  ELSE "execute"

\* the iteration for response.completed (lines 723-813)
Responses_StreamCompleted ==
  /\ pc = "stream1" /\ req.variant = "B"
  /\ events1' = Append(events1, CompletedEvent)
  /\ LET n == Len(events1) + 1
         d == ResponsesStreamDecision(functionCallInProgress, functionCallName,
                                      functionCallArgs)
     IN  IF d = "execute"
         THEN /\ toolCalls' = Append(toolCalls,
                   ToolInvocation(functionCallName, JSONparse(functionCallArgs)))
              /\ pc' = "tool"
              /\ UNCHANGED << emitted, queue, streamState >>
         ELSE IF d = "fail"
         THEN /\ FunctionCallFailed(1, n)
              /\ UNCHANGED toolCalls
         ELSE IF d = "unknown"
         THEN /\ EnqueueAndClose(<< Tag(DoneFrame, 1, n) >>)
              /\ pc' = "closed"
              /\ UNCHANGED toolCalls
         ELSE /\ EnqueueAndClose(<< Tag(StopChunk, 1, n), Tag(DoneFrame, 1, n) >>)
              /\ pc' = "closed"
              /\ UNCHANGED toolCalls
  /\ UNCHANGED << req, backendCalls, toolResult, nsVars, functionCallName,
                  functionCallArgs, functionCallInProgress, events2, written, http >>
  /\ UNCHANGED faults
  /\ UNCHANGED << final, fmtIn, fmtOut, disconnect, parked, arrays >>

\* the initiating stream ends without response.completed (lines 816-818)
Responses_StreamEnd ==
  /\ pc = "stream1" /\ req.variant = "B"
  /\ EnqueueAndClose(<< Tag(DoneFrame, 1, Len(events1)) >>)
  /\ pc' = "closed"
  /\ UNCHANGED << req, backendCalls, toolCalls, toolResult, nsVars, functionCallName,
                  functionCallArgs, functionCallInProgress, events1, events2, written,
                  http >>
  /\ UNCHANGED faults
  /\ UNCHANGED << final, fmtIn, fmtOut, disconnect, parked, arrays >>

\* the initiating stream throws: the catch of lines 819-822
Responses_StreamFail ==
  /\ pc = "stream1" /\ req.variant = "B"
  /\ ControllerError
  /\ pc' = "errored"
  /\ UNCHANGED << req, backendCalls, toolCalls, toolResult, nsVars, functionCallName,
                  functionCallArgs, functionCallInProgress, events1, events2, written,
                  http >>
  /\ faults' = faults \cup {"initial_stream"}
  /\ UNCHANGED << final, fmtIn, fmtOut, disconnect, parked, arrays >>

Responses_S_ToolReturn ==
  /\ pc = "tool" /\ req.variant = "B" /\ req.stream
  /\ \E r \in ToolResults :
       /\ toolResult' = r
       /\ backendCalls' = Append(backendCalls,
            BackendCall("followup", TRUE, FALSE,
              followUpMessage(messageContent(fullMessages(req.messages.v)),
                              functionCallName, functionCallArgs, r)))
  /\ pc' = "await_followup"
  /\ UNCHANGED << req, toolCalls, nsVars, streamVars, http >>
  /\ UNCHANGED faults
  /\ UNCHANGED << final, fmtIn, fmtOut, disconnect, parked, arrays >>

Responses_S_ToolThrow ==
  /\ pc = "tool" /\ req.variant = "B" /\ req.stream
  /\ FunctionCallFailed(1, Len(events1))
  /\ UNCHANGED << req, backendCalls, toolCalls, toolResult, nsVars, functionCallName,
                  functionCallArgs, functionCallInProgress, events1, events2, written,
                  http >>
  /\ faults' = faults \cup {"tool"}
  /\ UNCHANGED << final, fmtIn, fmtOut, disconnect, parked, arrays >>

Responses_FollowOpen ==
  /\ pc = "await_followup" /\ req.variant = "B" /\ req.stream
  /\ pc' = "stream2"
  /\ UNCHANGED << req, backendCalls, toolCalls, toolResult, nsVars, streamVars, http >>
  /\ UNCHANGED faults
  /\ UNCHANGED << final, fmtIn, fmtOut, disconnect, parked, arrays >>

Responses_FollowOpenFail ==
  /\ pc = "await_followup" /\ req.variant = "B" /\ req.stream
  /\ FunctionCallFailed(2, 0)
  /\ UNCHANGED << req, backendCalls, toolCalls, toolResult, nsVars, functionCallName,
                  functionCallArgs, functionCallInProgress, events1, events2, written,
                  http >>
  /\ faults' = faults \cup {"followup_call"}
  /\ UNCHANGED << final, fmtIn, fmtOut, disconnect, parked, arrays >>

\* one iteration of for await (const part of finalResponseStream)
Responses_FollowEvent ==
  /\ pc = "stream2" /\ req.variant = "B"
  /\ Len(events2) < MaxFollow
  /\ \E e \in ResponsesFollowEvents :
       /\ events2' = Append(events2, e)
       /\ Enqueue(TagAll(FollowChunksOf(e), 2, Len(events2) + 1))
  /\ UNCHANGED << req, pc, backendCalls, toolCalls, toolResult, nsVars, functionCallName,
                  functionCallArgs, functionCallInProgress, events1, written, http >>
  /\ UNCHANGED faults
  /\ UNCHANGED << final, fmtIn, fmtOut, disconnect, parked, arrays >>

\* the follow-up stream ends: lines 809-812
Responses_FollowEnd ==
  /\ pc = "stream2" /\ req.variant = "B"
  /\ EnqueueAndClose(<< Tag(DoneFrame, 2, Len(events2)) >>)
  /\ pc' = "closed"
  /\ UNCHANGED << req, backendCalls, toolCalls, toolResult, nsVars, functionCallName,
                  functionCallArgs, functionCallInProgress, events1, events2, written,
                  http >>
  /\ UNCHANGED faults
  /\ UNCHANGED << final, fmtIn, fmtOut, disconnect, parked, arrays >>

\* the follow-up stream throws inside the try of line 728
Responses_FollowFail ==
  /\ pc = "stream2" /\ req.variant = "B"
  /\ FunctionCallFailed(2, Len(events2))
  /\ UNCHANGED << req, backendCalls, toolCalls, toolResult, nsVars, functionCallName,
                  functionCallArgs, functionCallInProgress, events1, events2, written,
                  http >>
  /\ faults' = faults \cup {"followup_stream"}
  /\ UNCHANGED << final, fmtIn, fmtOut, disconnect, parked, arrays >>

ResponsesStreamingNext ==
  \/ Responses_OpenStream
  \/ Responses_OpenStreamFail
  \/ Responses_StreamEvent
  \/ Responses_StreamCompleted
  \/ Responses_StreamEnd
  \/ Responses_StreamFail
  \/ Responses_S_ToolReturn
  \/ Responses_S_ToolThrow
  \/ Responses_FollowOpen
  \/ Responses_FollowOpenFail
  \/ Responses_FollowEvent
  \/ Responses_FollowEnd
  \/ Responses_FollowFail

(***************************************************************************)
(* The route's reader loop over the returned ReadableStream                *)
(***************************************************************************)
\* reader.read() yields a chunk; res.write(value)
Route_ReadChunk ==
  /\ http = "streaming"
  /\ queue # <<>>
  /\ written' = Append(written, Head(queue))
  /\ queue' = Tail(queue)
  /\ UNCHANGED << req, pc, backendCalls, toolCalls, toolResult, nsVars, functionCallName,
                  functionCallArgs, functionCallInProgress, events1, events2, emitted,
                  streamState, http >>
  /\ UNCHANGED faults
  /\ UNCHANGED << final, fmtIn, fmtOut, disconnect, parked, arrays >>

\* reader.read() yields done; res.end()
Route_ReadDone ==
  /\ http = "streaming"
  /\ queue = <<>> /\ streamState = "closed"
  /\ http' = "ended"
  /\ UNCHANGED << req, pc, backendCalls, toolCalls, toolResult, nsVars, streamVars >>
  /\ UNCHANGED faults
  /\ UNCHANGED << final, fmtIn, fmtOut, disconnect, parked, arrays >>

\* reader.read() rejects; the catch answers 500 when no header was sent yet,
\* and cannot answer once res.write has sent them
Route_ReadError ==
  /\ http = "streaming"
  /\ streamState = "errored"
  /\ http' = IF written = <<>> THEN "error500" ELSE "broken"
  /\ UNCHANGED << req, pc, backendCalls, toolCalls, toolResult, nsVars, streamVars >>
  /\ UNCHANGED faults
  /\ UNCHANGED << final, fmtIn, fmtOut, disconnect, parked, arrays >>

RouteNext == Route_ReadChunk \/ Route_ReadDone \/ Route_ReadError

Next ==
  \/ validateRequest
  \/ Route_Reject
  \/ IssueInitialCall
  \/ NonStreamingNext
  \/ ChatStreamingNext
  \/ ResponsesStreamingNext
  \/ RouteNext

Spec == Init /\ [][Next]_vars

(***************************************************************************)
(* The client closing the connection while the response is streamed.      *)
(* Neither the route nor the services register a 'close' listener, pass   *)
(* an AbortSignal or give the ReadableStream a cancel(): every step of    *)
(* the request is the same with the client gone.                          *)
(***************************************************************************)
Client_Disconnect ==
  /\ http = "streaming"
  /\ streamState = "readable"
  /\ ~disconnect.some
  /\ disconnect' = Some([events1 |-> Len(events1), events2 |-> Len(events2),
                         calls |-> Len(backendCalls), tools |-> Len(toolCalls),
                         frames |-> Len(emitted), pc |-> pc])
  /\ UNCHANGED << req, pc, backendCalls, toolCalls, toolResult, nsVars, streamVars,
                  http, faults, final, fmtIn, fmtOut, parked, arrays >>

CancelNext == Next \/ Client_Disconnect

CancelSpec == Init /\ [][CancelNext]_vars

(***************************************************************************)
(* The second version of the route (routes/chatCompletion.ts lines         *)
(* 76-132): after the headers it pipes the result when it is a Node        *)
(* Readable and answers res.json(result) otherwise. Both services return a *)
(* web ReadableStream, which is no instance of Readable.                   *)
(***************************************************************************)
\* result instanceof Readable is false: res.json(result)
Route_JsonFallback ==
  /\ http = "streaming"
  /\ http' = "json_stream_object"
  /\ UNCHANGED << req, pc, backendCalls, toolCalls, toolResult, nsVars, streamVars,
                  faults, final, fmtIn, fmtOut, disconnect, parked, arrays >>

PipeNext ==
  \/ validateRequest
  \/ Route_Reject
  \/ IssueInitialCall
  \/ NonStreamingNext
  \/ ChatStreamingNext
  \/ ResponsesStreamingNext
  \/ Route_JsonFallback

PipeSpec == Init /\ [][PipeNext]_vars

(***************************************************************************)
(* Two streaming requests in flight. Node runs one continuation at a time: *)
(* the request whose continuation runs owns the request variables, the     *)
(* other one waits in parked at its await. Everything a request reads and  *)
(* writes is a parameter or a local of its own call of                     *)
(* processStreamingRequest, so it travels with the request.                *)
(***************************************************************************)
\* the accumulators kept at module level: they stay where they are
Switch_SharedAccumulators ==
  /\ parked.some
  /\ parked' = Some([req |-> req, pc |-> pc, backendCalls |-> backendCalls,
                     toolCalls |-> toolCalls, toolResult |-> toolResult,
                     functionCallName |-> functionCallName,
                     functionCallArgs |-> functionCallArgs,
                     functionCallInProgress |-> functionCallInProgress,
                     events1 |-> events1, events2 |-> events2, emitted |-> emitted,
                     queue |-> queue, streamState |-> streamState, http |-> http,
                     arrays |-> arrays])
  /\ req' = parked.v.req
  /\ pc' = parked.v.pc
  /\ backendCalls' = parked.v.backendCalls
  /\ toolCalls' = parked.v.toolCalls
  /\ toolResult' = parked.v.toolResult
  /\ UNCHANGED << functionCallName, functionCallArgs, functionCallInProgress >>
  /\ events1' = parked.v.events1
  /\ events2' = parked.v.events2
  /\ emitted' = parked.v.emitted
  /\ queue' = parked.v.queue
  /\ streamState' = parked.v.streamState
  /\ http' = parked.v.http
  /\ arrays' = parked.v.arrays
  /\ UNCHANGED << nsVars, written, faults, final, fmtIn, fmtOut, disconnect >>

\* the running request reaches an await and the other request's continuation runs
Switch ==
  /\ parked.some
  /\ parked' = Some([req |-> req, pc |-> pc, backendCalls |-> backendCalls,
                     toolCalls |-> toolCalls, toolResult |-> toolResult,
                     functionCallName |-> functionCallName,
                     functionCallArgs |-> functionCallArgs,
                     functionCallInProgress |-> functionCallInProgress,
                     events1 |-> events1, events2 |-> events2, emitted |-> emitted,
                     queue |-> queue, streamState |-> streamState, http |-> http,
                     arrays |-> arrays])
  /\ req' = parked.v.req
  /\ pc' = parked.v.pc
  /\ backendCalls' = parked.v.backendCalls
  /\ toolCalls' = parked.v.toolCalls
  /\ toolResult' = parked.v.toolResult
  /\ functionCallName' = parked.v.functionCallName
  /\ functionCallArgs' = parked.v.functionCallArgs
  /\ functionCallInProgress' = parked.v.functionCallInProgress
  /\ events1' = parked.v.events1
  /\ events2' = parked.v.events2
  /\ emitted' = parked.v.emitted
  /\ queue' = parked.v.queue
  /\ streamState' = parked.v.streamState
  /\ http' = parked.v.http
  /\ arrays' = parked.v.arrays
  /\ UNCHANGED << nsVars, written, faults, final, fmtIn, fmtOut, disconnect >>

\* the backend events of the two requests: text, a call of sendPhoto with
\* arguments {}, a lone arguments fragment
IsoEvents ==
  IF req.variant = "A"
  THEN { ChatPart(UNDEF, "hi", FALSE, <<>>), ChatPart("stop", UNDEF, FALSE, <<>>),
         ChatPart("function_call", UNDEF, TRUE,
                  << [name |-> "sendPhoto", arguments |-> <<"{">>],
                     [name |-> "", arguments |-> <<"}">>] >>) }
  ELSE { Event("response.output_text.delta", "hi", <<>>, UNDEF, UNDEF),
         Event("response.output_item.added", UNDEF, <<>>, "function_call", "sendPhoto"),
         Event("response.function_call_arguments.delta", UNDEF, <<"{">>, UNDEF, UNDEF),
         Event("response.function_call_arguments.done", UNDEF, <<"{", "}">>, UNDEF, UNDEF),
         CompletedEvent }

IsoFollowEvents ==
  IF req.variant = "A" THEN { ChatPart(UNDEF, "hi", FALSE, <<>>) }
  ELSE { Event("response.output_text.delta", "hi", <<>>, UNDEF, UNDEF), CompletedEvent }

IsoScope ==
  /\ \A i \in 1..Len(events1) : events1[i] \in IsoEvents
  /\ \A i \in 1..Len(events2) : events2[i] \in IsoFollowEvents

\* the request as it is when its handler is entered
Entered(r) ==
  [req |-> r, pc |-> "start", backendCalls |-> <<>>, toolCalls |-> <<>>,
   toolResult |-> UNDEF, functionCallName |-> UNDEF, functionCallArgs |-> <<>>,
   functionCallInProgress |-> FALSE, events1 |-> <<>>, events2 |-> <<>>,
   emitted |-> <<>>, queue |-> <<>>, streamState |-> "none", http |-> "pending",
   arrays |-> NewArrays(r)]

\* two accepted streaming requests of one deployment, with different bodies
IsoInit ==
  /\ req \in { r \in Requests : r.stream /\ r.body.appId = "app1" /\ r.messages.some }
  /\ pc = "start"
  /\ Idle
  /\ fmtIn = None
  /\ fmtOut = <<>>
  /\ parked \in { Some(Entered(r)) : r \in { q \in Requests :
                     /\ q.stream /\ q.variant = req.variant
                     /\ q.body.appId = UNDEF /\ q.messages.some } }

IsoNext ==
  \/ Switch
  \/ IssueInitialCall
  \/ Chat_OpenStream
  \/ (Chat_StreamPart /\ IsoScope')
  \/ Chat_S_ToolReturn
  \/ Chat_FollowOpen
  \/ (Chat_FollowPart /\ IsoScope')
  \/ Chat_FollowEnd
  \/ Responses_OpenStream
  \/ (Responses_StreamEvent /\ IsoScope')
  \/ Responses_StreamCompleted
  \/ Responses_S_ToolReturn
  \/ Responses_FollowOpen
  \/ (Responses_FollowEvent /\ IsoScope')
  \/ Responses_FollowEnd

IsoSpec == IsoInit /\ [][IsoNext]_vars

(***************************************************************************)
(* formatResponseAsCompletion on its own, over well-formed and malformed   *)
(* values                                                                  *)
(***************************************************************************)
\* null as an element of a content array
NullPart == [type |-> NULL, text |-> UNDEF]

Item(type, role, name, arguments, content, callId) ==
  [type |-> type, role |-> role, name |-> name, arguments |-> arguments,
   content |-> content, call_id |-> callId]

NoContent == [k |-> "undefined", s |-> UNDEF, parts |-> <<>>]
StringContent(t) == [k |-> "string", s |-> t, parts |-> <<>>]
ArrayContent(parts) == [k |-> "array", s |-> UNDEF, parts |-> parts]

FormatterItems ==
  { \* function calls: complete; with an empty name and empty arguments
    Item("function_call", UNDEF, "sendPhoto", <<"{", "}">>, NoContent, NoCallId),
    Item("function_call", UNDEF, "", <<>>, NoContent, NoCallId),
    \* a tool call known by its call_id only
    Item("function_tool_call", UNDEF, UNDEF, UNDEFARGS, NoContent,
         StringCallId(<< "sendPhoto", "1" >>)),
    \* an empty name beside a call_id that is a number
    Item("function_call", UNDEF, "", <<"{", "}">>, NoContent, NumberCallId),
    \* neither name, arguments nor call_id
    Item("function_call", UNDEF, UNDEF, UNDEFARGS, NoContent, NoCallId),
    \* null in place of an item
    Item(NULL, UNDEF, UNDEF, UNDEFARGS, NoContent, NoCallId),
    \* assistant messages: string, empty string, fragments, fragments after a null
    Item("message", "assistant", UNDEF, <<>>, StringContent("hello"), NoCallId),
    Item("message", "assistant", UNDEF, <<>>, StringContent(""), NoCallId),
    Item("message", "assistant", UNDEF, <<>>,
         ArrayContent(<< TextPart("hel"), TextPart("lo") >>), NoCallId),
    Item("message", "assistant", UNDEF, <<>>,
         ArrayContent(<< NullPart, TextPart("ok") >>), NoCallId),
    \* messages of another role: fragments, fragments before a null
    Item("message", "user", UNDEF, <<>>, ArrayContent(<< TextPart("hi") >>), NoCallId),
    Item("message", "user", UNDEF, <<>>,
         ArrayContent(<< TextPart("hi"), NullPart >>), NoCallId) }

\* the null response
NullResponse == [api |-> "null"]

FormatterInputs ==
  { [api |-> "responses", id |-> "resp_1", model |-> m,
     outputIsArray |-> TRUE, output |-> o, output_text |-> t] :
      m \in {"gpt-4o-mini", UNDEF},
      o \in SeqsUpTo(FormatterItems, MaxOutput),
      t \in OutputTexts \cup {NUMBER} }
  \cup { [api |-> "responses", id |-> UNDEF, model |-> "gpt-4o-mini",
          outputIsArray |-> FALSE, output |-> <<>>, output_text |-> t] :
           t \in OutputTexts \cup {NUMBER} }
  \cup { NullResponse }

FormatInit ==
  /\ req = CHOOSE r \in Requests :
             r.variant = "B" /\ ~r.stream /\ r.messages.some /\ r.body.model = UNDEF
  /\ pc = "arrived"
  /\ Idle
  /\ fmtIn \in { Some(v) : v \in FormatterInputs }
  /\ fmtOut = <<>>
  /\ parked = None

\* one call of the formatter, at the clock's current second; the clock never runs back
Format_Call ==
  /\ fmtIn.some
  /\ Len(fmtOut) < MaxFormats
  /\ \E now \in Times :
       /\ fmtOut # <<>> => now >= fmtOut[Len(fmtOut)].created
       /\ fmtOut' = Append(fmtOut, formatResponseAsCompletion(fmtIn.v, now))
  /\ UNCHANGED << req, pc, backendCalls, toolCalls, toolResult, initial, result,
                  failure, http, streamVars, faults, final, fmtIn, disconnect,
                  parked, arrays >>

FormatNext == Format_Call

FormatSpec == FormatInit /\ [][FormatNext]_vars

(***************************************************************************)
(* Properties                                                              *)
(***************************************************************************)
Frames(q) == [i \in 1..Len(q) |-> q[i].frame]

IsPrefix(a, b) == Len(a) <= Len(b) /\ SubSeq(b, 1, Len(a)) = a

DoneCount == Cardinality({ i \in 1..Len(emitted) : emitted[i].frame = DoneFrame })

\* the initiating stream has delivered its terminating event
TerminatingObserved ==
  /\ events1 # <<>>
  /\ IF req.variant = "A"
     THEN events1[Len(events1)].finish_reason # UNDEF
     ELSE events1[Len(events1)] = CompletedEvent

\* the initial non-streaming object carries a function call
SignalsCall ==
  /\ ~req.stream
  /\ initial.some
  /\ IF req.variant = "A"
     THEN /\ initial.v.choices
          /\ initial.v.finish_reason = "function_call"
          /\ initial.v.function_call.present
     ELSE FirstPlainFunctionCall(initial.v.output) # 0

\* that call (the first function_call item for the Responses variant)
SignalledCall ==
  IF req.variant = "A" THEN initial.v.function_call
  ELSE LET fc == initial.v.output[FirstPlainFunctionCall(initial.v.output)]
       IN  [present |-> TRUE, name |-> fc.name, arguments |-> fc.arguments]

\* C1: per inbound request at most one tool handler is invoked and at most
\* two backend calls are made: the initial one and, only once a tool was
\* executed, one follow-up.
C1_SingleHop ==
  /\ Len(toolCalls) <= 1
  /\ Len(backendCalls) <= 2
  /\ Len(backendCalls) >= 1 => backendCalls[1].phase = "initial"
  /\ Len(backendCalls) = 2 =>
       /\ backendCalls[2].phase = "followup"
       /\ Len(toolCalls) = 1
       /\ "tool" \notin faults

\* a finished request whose follow-up object asks for a function call again
C1_Witness ==
  /\ pc = "returned"
  /\ Len(backendCalls) = 2
  /\ Len(toolCalls) = 1
  /\ result.v.finish_reason = "function_call"
  /\ result.v.function_call.name = "sendPhoto"

\* C2: non-streaming, both variants: an initial response that carries a
\* function call whose name is registered and whose arguments parse as JSON
\* has the tool handler invoked exactly once, with the request's appId,
\* userId and channel and the parsed arguments.
C2_ToolInvokedOnce ==
  ( /\ SignalsCall
    /\ functionMap(SignalledCall.name)
    /\ JSONparse(SignalledCall.arguments).ok )
  => toolCalls = << [name |-> SignalledCall.name,
                     appId |-> req.ctx.appId,
                     userId |-> req.ctx.userId,
                     channel |-> req.ctx.channel,
                     args |-> JSONparse(SignalledCall.arguments)] >>

\* the Responses variant finished after running the tool on the arguments 0
C2_Witness ==
  /\ SignalsCall
  /\ req.variant = "B"
  /\ functionMap(SignalledCall.name)
  /\ SignalledCall.arguments = <<"0">>
  /\ Len(toolCalls) = 1
  /\ pc = "returned"

\* C3: streaming, both variants: once the initiating stream has signalled a
\* function call for a registered tool (accumulated arguments that decode as
\* JSON) and then its terminating event, the tool handler has been invoked
\* exactly once with the decoding of the accumulated fragments; and it is
\* never invoked before the terminating event.
C3_Claim ==
  /\ (req.stream /\ toolCalls # <<>>) => TerminatingObserved
  /\ ( /\ req.stream
       /\ TerminatingObserved
       /\ functionCallName \notin {"", UNDEF}
       /\ functionMap(functionCallName)
       /\ JSONparse(functionCallArgs).ok )
     => toolCalls = << [name |-> functionCallName,
                        appId |-> req.ctx.appId,
                        userId |-> req.ctx.userId,
                        channel |-> req.ctx.channel,
                        args |-> JSONparse(functionCallArgs)] >>

\* C4: non-streaming, both variants: an initial response that carries a
\* function call (a name and an argument payload) whose name is not
\* registered leads to no tool invocation,
\* no follow-up call and no failure; the returned completion is the
\* unexecuted response with finish_reason 'function_call' and the call's name
\* and arguments.
C4_Claim ==
  ( /\ SignalsCall
    /\ SignalledCall.name \notin {"", UNDEF}
    /\ SignalledCall.arguments # <<>>
    /\ ~functionMap(SignalledCall.name) )
  => /\ toolCalls = <<>>
     /\ Len(backendCalls) = 1
     /\ ~failure.some
     /\ result.some
     /\ result.v.finish_reason = "function_call"
     /\ result.v.function_call.present
     /\ result.v.function_call.name = SignalledCall.name
     /\ result.v.function_call.arguments = SignalledCall.arguments

\* the frames the events of the initiating stream put on the output
RECURSIVE InitialFrames(_)
InitialFrames(events) ==
  IF events = <<>> THEN <<>>
  ELSE InitialFrames(SubSeq(events, 1, Len(events) - 1))
       \o (IF req.variant = "A" THEN << PartFrame(events[Len(events)]) >>
           ELSE ChunksOf(events[Len(events)]))

\* C5: streaming, both variants: when the terminating event arrives and the
\* accumulated function name is not registered, no tool is invoked, no
\* follow-up call is made, the stream is closed and not failed, and the
\* output is the chunks of the initiating stream followed by the DONE frame.
C5_UnknownToolStream ==
  ( /\ req.stream
    /\ TerminatingObserved
    /\ functionCallName \notin {"", UNDEF}
    /\ ~functionMap(functionCallName) )
  => /\ toolCalls = <<>>
     /\ Len(backendCalls) = 1
     /\ streamState = "closed"
     /\ Frames(emitted) = InitialFrames(events1) \o << DoneFrame >>

\* both variants' case is reached; this one is the Responses variant with
\* chunks in front of the DONE frame, all of them read by the route
C5_Witness ==
  /\ req.stream /\ req.variant = "B"
  /\ TerminatingObserved
  /\ functionCallName = "foo"
  /\ Len(emitted) >= 3
  /\ http = "ended"

HopFailed ==
  \/ /\ TerminatingObserved
     /\ functionCallName \notin {"", UNDEF}
     /\ functionMap(functionCallName)
     /\ functionCallArgs # <<>>
     /\ ~JSONparse(functionCallArgs).ok
  \/ faults \cap {"tool", "followup_call", "followup_stream"} # {}

\* C7: streaming, both variants: when the tool-calling hop fails after the
\* terminating event (arguments that do not parse, a tool that throws, a
\* follow-up call that fails) the stream is terminated with an error signal
\* and the DONE frame is never emitted.
C7_Claim ==
  (req.stream /\ HopFailed) => (streamState = "errored" /\ DoneCount = 0)

\* C8: streaming: when a backend event sequence fails while it is consumed
\* the stream is terminated with an error signal, DONE is never emitted and
\* every chunk emitted before the failure is still delivered, in order.
C8_Claim ==
  (req.stream /\ faults \cap {"initial_stream", "followup_stream"} # {})
  => /\ streamState = "errored"
     /\ DoneCount = 0
     /\ written \o queue = emitted

\* C9: every streaming request whose backend sequences end without failure
\* ends with the stream closed and the DONE frame as its last frame,
\* exactly once.
C9_Claim ==
  (req.stream /\ faults = {} /\ pc \in {"closed", "errored", "start_returned"})
  => /\ streamState = "closed"
     /\ emitted # <<>>
     /\ emitted[Len(emitted)].frame = DoneFrame
     /\ DoneCount = 1

\* the native events a tagged frame may come from
FrameOfEvent(t) ==
  IF t.frame \in {DoneFrame, ErrorFrame} THEN TRUE
  ELSE LET events == IF t.phase = 1 THEN events1 ELSE events2
       IN  /\ t.idx \in 1..Len(events)
           /\ IF req.variant = "A" THEN t.frame = PartFrame(events[t.idx])
              ELSE IF t.phase = 2
                THEN \E k \in 1..Len(FollowChunksOf(events[t.idx])) :
                       t.frame = FollowChunksOf(events[t.idx])[k]
              ELSE \/ \E k \in 1..Len(ChunksOf(events[t.idx])) :
                        t.frame = ChunksOf(events[t.idx])[k]
                   \/ events[t.idx] = CompletedEvent /\ t.frame = StopChunk

\* C10: the output frames are in the order of the native events they come
\* from, every frame of the follow-up stream after every frame of the
\* initiating stream, nothing after the DONE frame, and the route writes
\* them in that order.
C10_Ordering ==
  /\ \A i, j \in 1..Len(emitted) :
       i < j => \/ emitted[i].phase < emitted[j].phase
                \/ /\ emitted[i].phase = emitted[j].phase
                   /\ emitted[i].idx <= emitted[j].idx
  /\ \A i \in 1..Len(emitted) : FrameOfEvent(emitted[i])
  /\ \A i \in 1..Len(emitted) : emitted[i].frame = DoneFrame => i = Len(emitted)
  /\ IsPrefix(written, emitted)

\* a stream with chunks of both backend sequences and the DONE frame, all
\* written by the route
C10_Witness ==
  /\ http = "ended"
  /\ written = emitted
  /\ \E i, j \in 1..Len(written) :
       /\ written[i].phase = 1 /\ written[i].frame # DoneFrame
       /\ written[j].phase = 2 /\ written[j].frame # DoneFrame
  /\ written[Len(written)].frame = DoneFrame

\* C11: Chat Completions variant, streaming or not: the messages of the
\* follow-up call are the messages of the initial call (the system preamble,
\* then the caller's messages in order) with exactly one message appended:
\* role 'function', the called tool's name, the string the tool returned.
C11_FollowUpMessages ==
  (req.variant = "A" /\ Len(backendCalls) = 2)
  => LET first == backendCalls[1].input
         second == backendCalls[2].input
     IN  /\ first = << createSystemMessage >> \o req.messages.v
         /\ Len(second) = Len(first) + 1
         /\ SubSeq(second, 1, Len(first)) = first
         /\ second[Len(second)] =
              [role |-> "function", name |-> toolCalls[1].name, content |-> toolResult]

\* a streaming request with two caller messages has issued its follow-up call
C11_Witness ==
  /\ req.variant = "A" /\ req.stream
  /\ Len(backendCalls) = 2
  /\ Len(req.messages.v) = 2
  /\ Len(backendCalls[2].input) = 4

\* C12: the follow-up call goes to the same backend variant as the initial
\* call, with the streaming mode of the request and with the same model.
C12_FollowUpSameShape ==
  Len(backendCalls) = 2
  => /\ backendCalls[1].stream = req.stream
     /\ backendCalls[2].api = backendCalls[1].api
     /\ backendCalls[2].stream = req.stream
     /\ backendCalls[2].model = backendCalls[1].model
     /\ backendCalls[2].model = (IF req.body.model = UNDEF THEN "gpt-4o-mini"
                                 ELSE req.body.model)

\* a streaming Responses request that names no model has issued its
\* follow-up call
C12_Witness ==
  /\ req.variant = "B" /\ req.stream
  /\ req.body.model = UNDEF
  /\ Len(backendCalls) = 2
  /\ backendCalls[2].stream

\* the follow-up response, or the follow-up stream, asks for a function call
FollowUpRequestsCall ==
  IF ~req.stream
  THEN /\ final.some
       /\ IF req.variant = "A"
          THEN final.v.finish_reason = "function_call" /\ final.v.function_call.present
          ELSE FirstPlainFunctionCall(final.v.output) # 0
  ELSE \E i \in 1..Len(events2) :
         IF req.variant = "A"
         THEN events2[i].finish_reason = "function_call" /\ events2[i].tool_calls # <<>>
         ELSE IsNameEvent(events2[i])
              \/ events2[i].type = "response.function_call_arguments.done"

\* C13: the follow-up response is final: a function call it asks for is
\* never executed and no third backend call is made; a non-streaming request
\* returns the follow-up response (formatted, for the Responses variant).
C13_FollowUpIsFinal ==
  /\ FollowUpRequestsCall => (Len(toolCalls) = 1 /\ Len(backendCalls) = 2)
  /\ (~req.stream /\ final.some)
     => /\ result.some
        /\ IF req.variant = "A" THEN result.v = final.v
           ELSE \E now \in Times : result.v = formatResponseAsCompletion(final.v, now)
  /\ (~req.stream /\ Len(backendCalls) = 2 /\ result.some) => final.some

\* a non-streaming Responses request returned a follow-up object that asks
\* for a function call, as a function-call completion
C13_Witness ==
  /\ req.variant = "B" /\ ~req.stream
  /\ FollowUpRequestsCall
  /\ pc = "returned"
  /\ result.v.finish_reason = "function_call"

\* the retrieved-context text, one line per document, as the system message carries it
RetrievedContextText ==
  "You have access to the following knowledge:\n"
  \o "doc1: \"The TEN Framework is a powerful conversational AI platform.\"\n"
  \o "doc2: \"Agora Convo AI comes out on March 1st for GA. It will be best in class for quality and reach\"\n"
  \o "doc3: \"Agora is the best realtime engagement platform.\"\n"
  \o "doc4: \"Ada Lovelace is the best developer.\""
  \o "\nAnswer questions using this data and be confident about its contents."

\* the caller's messages from position i on, as paragraphs of the transcript
RECURSIVE CallerTranscript(_, _)
CallerTranscript(msgs, i) ==
  IF i > Len(msgs) THEN ""
  ELSE "\n\n" \o (IF msgs[i].role = "user" THEN "User: " ELSE "Assistant: ")
       \o msgs[i].content \o CallerTranscript(msgs, i + 1)

\* C14: the initial call carries exactly one prepended system message with the
\* formatted retrieved-context text, followed by the caller's messages
\* unchanged and in order (as a message array for Chat Completions, as the
\* flattened transcript for Responses).
C14_ContextAssembly ==
  Len(backendCalls) >= 1
  => LET sent == backendCalls[1].input
         own == req.body.messages.v
     IN  IF req.variant = "A"
         THEN /\ Len(sent) = Len(own) + 1
              /\ sent[1].role = "system"
              /\ sent[1].content = RetrievedContextText
              /\ \A i \in 1..Len(own) : sent[i + 1] = own[i]
         ELSE sent = "System: " \o RetrievedContextText \o CallerTranscript(own, 1)

\* an initial call was issued for a request with two caller messages
C14_Witness ==
  /\ Len(backendCalls) >= 1
  /\ Len(req.body.messages.v) = 2
  /\ backendCalls[1].phase = "initial"

\* the body of the request has no messages field, or no (or an empty) appId field
BodyLacksRequired ==
  ~req.body.messages.some \/ req.body.appId \in {UNDEF, ""}

\* C15: a request whose body lacks messages or lacks appId is answered with
\* HTTP 400, and no backend call is issued and no tool is executed for it.
C15_RequiredInputs ==
  (BodyLacksRequired /\ pc # "start")
  => /\ http = "error400"
     /\ backendCalls = <<>>
     /\ toolCalls = <<>>

\* the completion a non-streaming request returned is not a function-call completion
ReturnedPlainCompletion ==
  /\ ~req.stream
  /\ result.some
  /\ IF req.variant = "A" THEN result.v.choices ELSE TRUE
  /\ result.v.finish_reason # "function_call"

\* C16 (as stated): whenever the completion a non-streaming request returns is
\* not a function-call completion, its finish_reason is 'stop' and its content
\* is non-null.
C16_Original ==
  ReturnedPlainCompletion
  => (result.v.finish_reason = "stop" /\ result.v.content \notin {UNDEF, NULL})

\* C16 (amended): for the Responses variant, whenever the returned completion
\* is not a function-call completion, its finish_reason is 'stop' and its
\* content is non-null; the Chat Completions variant returns the backend's
\* initial or follow-up object unchanged.
C16_Amended ==
  (~req.stream /\ result.some)
  => IF req.variant = "B"
     THEN result.v.finish_reason # "function_call"
          => (result.v.finish_reason = "stop" /\ result.v.content \notin {UNDEF, NULL})
     ELSE IF final.some THEN result.v = final.v ELSE result.v = initial.v

\* a Responses request whose follow-up object carries no text at all returned
\* a plain completion with empty content
C16_Witness ==
  /\ ReturnedPlainCompletion
  /\ req.variant = "B" /\ final.some
  /\ final.v.output_text = UNDEF
  /\ result.v.content = ""

\* a well-typed Responses object: an output array without null elements, whose
\* function-call items carry a name and arguments, and whose top-level text is
\* a string or absent
WellTypedResponse(r) ==
  /\ r.api = "responses"
  /\ r.outputIsArray
  /\ r.output_text # NUMBER
  /\ \A i \in 1..Len(r.output) :
       /\ r.output[i].type # NULL
       /\ IsFunctionCallItem(r.output[i])
          => (r.output[i].name \notin {"", UNDEF} /\ r.output[i].arguments \notin {<<>>, UNDEFARGS})
       /\ r.output[i].type = "message"
          => (r.output[i].role = "assistant" /\ ~HasNullPart(r.output[i]))

\* the text the stated order of precedence yields for an object without a function call
PrecedenceText(r) ==
  LET amIdx == FirstAssistantMessage(r.output)
      fromMessage ==
        IF amIdx = 0 THEN ""
        ELSE IF r.output[amIdx].content.k = "string" THEN r.output[amIdx].content.s
        ELSE ConcatParts(r.output[amIdx].content.parts)
  IN  IF fromMessage # "" THEN fromMessage
      ELSE IF r.output_text # UNDEF THEN r.output_text
      ELSE ""

\* C17: the formatter extracts in this order: a function-call item of the
\* output gives a function-call completion with the item's name and arguments
\* and content null, even when top-level output text is present; else the
\* assistant message's string content; else the concatenation of its typed
\* text fragments; top-level output text only when none of these yields text;
\* else empty content.
C17_Precedence ==
  \A k \in 1..Len(fmtOut) :
    WellTypedResponse(fmtIn.v)
    => LET r == fmtIn.v
           out == fmtOut[k]
           fcIdx == FirstFunctionCallItem(r.output)
       IN  IF fcIdx # 0
           THEN /\ out.finish_reason = "function_call"
                /\ out.content = NULL
                /\ out.function_call.present
                /\ out.function_call.name = r.output[fcIdx].name
                /\ out.function_call.arguments = r.output[fcIdx].arguments
           ELSE /\ out.finish_reason = "stop"
                /\ out.content = PrecedenceText(r)

\* C18: the formatter never throws: on every value, malformed or not, it
\* returns a completion with one choice at index 0, an assistant message and a
\* finish_reason of 'stop' or 'function_call'; when its body fails (a null
\* response, a call_id that is no string, a null content fragment) the result
\* is the placeholder completion with an explanatory content string.
C18_NeverThrows ==
  \A k \in 1..Len(fmtOut) :
    LET out == fmtOut[k]
    IN  /\ out.api = "completion"
        /\ out.object = "chat.completion"
        /\ out.index = 0
        /\ out.role = "assistant"
        /\ out.finish_reason \in {"stop", "function_call"}
        /\ out.finish_reason = "function_call"
           => (out.content = NULL /\ out.function_call.present
               /\ out.function_call.name \notin {"", UNDEF, NULL})
        /\ out.finish_reason = "stop"
           => (IsString(out.content) /\ ~out.function_call.present)
        /\ (fmtIn.v = NullResponse \/ FormatterThrows(fmtIn.v))
           => /\ out.finish_reason = "stop"
              /\ out.content = "Error formatting response. Please try again."

\* the formatter was called on an object whose output holds a message with a
\* null content fragment, and returned the placeholder
C18_Witness ==
  /\ Len(fmtOut) >= 1
  /\ fmtIn.v # NullResponse
  /\ \E i \in 1..Len(fmtIn.v.output) : HasNullPart(fmtIn.v.output[i])
  /\ fmtOut[1].id = "fallback_id"

\* C19: formatting the same response twice yields identical output in every
\* field, the creation timestamp included, whenever the two calls happen.
C19_Idempotent ==
  \A i, j \in 1..Len(fmtOut) : fmtOut[i] = fmtOut[j]

\* the deltas of one kind among the native events, concatenated in order
RECURSIVE DeltaText(_, _)
DeltaText(events, type) ==
  IF events = <<>> THEN ""
  ELSE (IF Head(events).type = type THEN Head(events).delta ELSE "")
       \o DeltaText(Tail(events), type)

\* the delta.content of the emitted chunks, concatenated in order
RECURSIVE StreamedContent(_)
StreamedContent(entries) ==
  IF entries = <<>> THEN ""
  ELSE (IF Head(entries).frame.kind = "chunk" /\ Head(entries).frame.content # UNDEF
        THEN Head(entries).frame.content ELSE "")
       \o StreamedContent(Tail(entries))

\* the terminal object the backend returns for the answer it streamed as these
\* events: one assistant message holding the text and the refusal, and the
\* text alone as the top-level output text
AnswerObject(events) ==
  LET text == DeltaText(events, "response.output_text.delta")
      refusal == DeltaText(events, "response.refusal.delta")
  IN  [api |-> "responses", id |-> "resp_1", model |-> "gpt-4o-mini",
       outputIsArray |-> TRUE,
       output |-> << Item("message", "assistant", UNDEF, <<>>,
                          ArrayContent((IF text = "" THEN <<>> ELSE << TextPart(text) >>)
                                       \o (IF refusal = "" THEN <<>>
                                           ELSE << [type |-> "refusal", text |-> UNDEF] >>)),
                          NoCallId) >>,
       output_text |-> text]

\* the initiating stream carried an answer without any function call and the
\* output was closed after its response.completed
PlainAnswerStreamed ==
  /\ req.variant = "B" /\ req.stream
  /\ pc = "closed"
  /\ toolCalls = <<>>
  /\ events1 # <<>> /\ events1[Len(events1)] = CompletedEvent
  /\ \A i \in 1..Len(events1) :
       events1[i].type \in {"response.output_text.delta", "response.refusal.delta",
                            "response.created", "response.completed"}

\* C20: for the same backend answer, the delta.content fragments of the
\* streamed chunks, concatenated in order, equal the message content of the
\* completion the non-streaming path returns.
C20_RoundTrip ==
  PlainAnswerStreamed
  => \A now \in Times :
       StreamedContent(emitted)
         = formatResponseAsCompletion(AnswerObject(events1), now).content

\* C21: once the client has disconnected from a streaming response, no
\* further native event is consumed from the backend, no follow-up backend
\* call is issued (a tool result in flight is not forwarded) and no further
\* frame is produced.
C21_Cancellation ==
  disconnect.some
  => /\ Len(events1) = disconnect.v.events1
     /\ Len(events2) = disconnect.v.events2
     /\ Len(backendCalls) = disconnect.v.calls
     /\ Len(emitted) = disconnect.v.frames

\* the accumulators a request has after these events of its own initiating stream
RECURSIVE OwnAccumulator(_)
OwnAccumulator(events) ==
  IF events = <<>>
  THEN [name |-> UNDEF, args |-> <<>>, inProgress |-> FALSE]
  ELSE LET before == OwnAccumulator(SubSeq(events, 1, Len(events) - 1))
           e == events[Len(events)]
       IN  IF req.variant = "A"
           THEN IF e.finish_reason = "function_call" /\ e.message
                THEN LET acc == AccumulateToolCalls(
                                  [name |-> before.name, args |-> before.args],
                                  e.tool_calls)
                     IN  [name |-> acc.name, args |-> acc.args, inProgress |-> FALSE]
                ELSE before
           ELSE [name |-> NextName(before.name, e),
                 args |-> NextArgs(before.args, e),
                 inProgress |-> NextInProgress(before.inProgress, e)]

\* C22: with two requests in flight and their awaits interleaved in any
\* order, the running request's accumulator, tool invocation, backend inputs
\* and emitted frames are those of its own body and its own backend events.
C22_Isolation ==
  parked.some
  => /\ functionCallName = OwnAccumulator(events1).name
     /\ functionCallArgs = OwnAccumulator(events1).args
     /\ functionCallInProgress = OwnAccumulator(events1).inProgress
     /\ \A i \in 1..Len(toolCalls) :
          toolCalls[i] = ToolInvocation(OwnAccumulator(events1).name,
                                        JSONparse(OwnAccumulator(events1).args))
     /\ \A i \in 1..Len(backendCalls) : backendCalls[i].model = req.model
     /\ Len(backendCalls) >= 1 => backendCalls[1].input = InitialInput
     /\ Len(backendCalls) = 2
        => backendCalls[2].input =
             (IF req.variant = "A"
              THEN updatedMessages(fullMessages(req.messages.v),
                                   OwnAccumulator(events1).name, toolResult)
              ELSE followUpMessage(messageContent(fullMessages(req.messages.v)),
                                   OwnAccumulator(events1).name,
                                   OwnAccumulator(events1).args, toolResult))
     /\ \A i \in 1..Len(emitted) : FrameOfEvent(emitted[i])

\* one request has finished after a tool call while the other, which saw
\* other events, is in the middle of its follow-up stream
C22_Witness ==
  /\ parked.some
  /\ pc = "closed" /\ Len(toolCalls) = 1
  /\ parked.v.pc = "stream2"
  /\ parked.v.events1 # events1
  /\ parked.v.req.ctx.appId # req.ctx.appId

\* a backend call failed in non-streaming mode, or before the output stream of
\* a streaming request was created
BackendFailedBeforeOutput ==
  \/ ~req.stream /\ faults \cap {"initial_call", "followup_call"} # {}
  \/ req.stream /\ "initial_call" \in faults

\* C23: a backend failure in non-streaming mode, or before the output stream
\* exists in streaming mode, ends the request with an error answered as HTTP
\* 500 whose message contains the backend's message; no completion is returned.
C23_BackendFailureSurfaces ==
  BackendFailedBeforeOutput
  => /\ pc = "failed"
     /\ http = "error500"
     /\ failure.some
     /\ failure.v.message \in BackendMessages
     /\ result = None
     /\ streamState = "none"

\* the follow-up call of a non-streaming Responses request failed after the
\* tool had run
C23_Witness ==
  /\ req.variant = "B" /\ ~req.stream
  /\ "followup_call" \in faults
  /\ Len(toolCalls) = 1
  /\ http = "error500"

\* C24: after a backend call of a request has failed (the call itself or the
\* stream it returned), no further backend call is issued for the request:
\* the failed call stays the last one and the request is over.
C24_NoRetry ==
  /\ faults \cap {"initial_call", "initial_stream"} # {}
     => (Len(backendCalls) = 1 /\ toolCalls = <<>>)
  /\ faults \cap {"followup_call", "followup_stream"} # {}
     => (Len(backendCalls) = 2 /\ backendCalls[2].phase = "followup")
  /\ faults \cap {"initial_call", "initial_stream", "followup_call", "followup_stream"} # {}
     => pc \in {"failed", "errored", "closed"}

\* the follow-up stream of a streaming Responses request failed after one
\* event, and the request ended with the two calls it had made
C24_Witness ==
  /\ req.variant = "B" /\ req.stream
  /\ "followup_stream" \in faults
  /\ Len(events2) >= 1
  /\ Len(backendCalls) = 2

\* C25: for an accepted request with stream = true, the HTTP response body is
\* the sequence of frames of the output stream in the same order, the response
\* is ended once that stream is done, and its last frame is the DONE frame.
C25_HttpStreamingBody ==
  (req.stream /\ streamState # "none")
  => /\ http \in {"streaming", "ended", "broken", "error500"}
     /\ IsPrefix(written, emitted)
     /\ http = "ended"
        => /\ written = emitted
           /\ written # <<>>
           /\ written[Len(written)].frame = DoneFrame
     /\ (streamState = "closed" /\ queue = <<>>) => (http = "ended" \/ ENABLED Route_ReadDone)

\* the Authorization header carries no bearer token, or another token than the key
BadToken ==
  \/ ~req.authorization.present
  \/ ~req.authorization.bearer
  \/ req.authorization.rest # ApiKey

\* C26: a request whose Authorization header carries no bearer token, or a
\* token other than the configured key, is answered with HTTP 403 and never
\* reaches the completion handler, in every runtime environment.
C26_TokenAuthentication ==
  (BadToken /\ pc # "arrived")
  => /\ http = "error403"
     /\ pc = "rejected"
     /\ backendCalls = <<>>
     /\ toolCalls = <<>>

\* the frames of the output that are chunks with finish_reason 'stop'
StopChunkCount ==
  Cardinality({ i \in 1..Len(emitted) : emitted[i].frame = StopChunk })

\* C27: Responses variant, streaming: when response.completed arrives and no
\* function name has been accumulated, the output ends with exactly one chunk
\* with finish_reason 'stop' immediately followed by the DONE frame, the
\* stream is closed, and no further event is consumed, no backend call or
\* tool is started and no further frame is emitted.
C27_TerminalStep ==
  ( /\ req.variant = "B" /\ req.stream
    /\ TerminatingObserved
    /\ functionCallName \in {"", UNDEF} )
  => LET n == Len(events1)
         m == Len(emitted)
     IN  /\ m >= 2
         /\ emitted[m - 1] = Tag(StopChunk, 1, n)
         /\ emitted[m] = Tag(DoneFrame, 1, n)
         /\ StopChunkCount = 1
         /\ DoneCount = 1
         /\ Frames(SubSeq(emitted, 1, m - 2))
              = InitialFrames(SubSeq(events1, 1, n - 1))
         /\ streamState = "closed"
         /\ pc = "closed"
         /\ events2 = <<>>
         /\ toolCalls = <<>>
         /\ Len(backendCalls) = 1

\* response.completed after an arguments delta without any name, read to the end
C27_Witness ==
  /\ req.variant = "B" /\ req.stream
  /\ Len(events1) = 2
  /\ events1[1].type = "response.function_call_arguments.delta"
  /\ events1[2] = CompletedEvent
  /\ functionCallInProgress
  /\ functionCallName = UNDEF
  /\ http = "ended"

\* the event types the dispatch of lines 600-723 tests for
RecognizedTypes ==
  { "response.output_text.delta", "response.function_call_arguments.delta",
    "response.function_call_arguments.done", "response.output_item.added",
    "response.output_text.done", "response.refusal.delta", "response.completed" }

IsRecognized(e) == e.type \in RecognizedTypes

\* the frames the events of the follow-up stream put on the output
RECURSIVE FollowFrames(_)
FollowFrames(events) ==
  IF events = <<>> THEN <<>>
  ELSE FollowFrames(SubSeq(events, 1, Len(events) - 1))
       \o FollowChunksOf(events[Len(events)])

\* the chunks on the output that come from an event of the given stream
\* (the stop chunk of the initiating response.completed, the error frame and
\* the DONE frame left out)
EventChunks(phase) ==
  LET FromEvent(t) ==
        /\ t.phase = phase
        /\ t.frame \notin {DoneFrame, ErrorFrame}
        /\ ~(phase = 1 /\ t.frame = StopChunk)
  IN  Frames(SelectSeq(emitted, FromEvent))

\* C28: Responses variant, streaming: an event whose type the dispatch does
\* not test for puts no frame on the output, leaves the accumulated name,
\* arguments and flag as they were, does not fail the stream, and the frames
\* of the other events are those of the same stream without it.
C28_ForwardCompatibility ==
  (req.variant = "B" /\ req.stream)
  => LET known1 == SelectSeq(events1, IsRecognized)
         known2 == SelectSeq(events2, IsRecognized)
         acc == OwnAccumulator(known1)
     IN  /\ \A i \in 1..Len(emitted) :
              LET t == emitted[i]
                  events == IF t.phase = 1 THEN events1 ELSE events2
              IN  (t.idx \in 1..Len(events) /\ ~IsRecognized(events[t.idx]))
                    => t.frame \in {DoneFrame, ErrorFrame}
         /\ functionCallName = acc.name
         /\ functionCallArgs = acc.args
         /\ functionCallInProgress = acc.inProgress
         /\ EventChunks(1) = InitialFrames(SelectSeq(known1, LAMBDA e : e # CompletedEvent))
         /\ EventChunks(2) = FollowFrames(known2)
         /\ streamState = "errored"
              => faults \cap {"initial_stream", "followup_stream"} # {}

\* response.created between an arguments delta and the end of the initiating
\* stream
C28_Witness ==
  /\ req.variant = "B" /\ req.stream
  /\ Len(events1) = 3
  /\ events1[1].type = "response.function_call_arguments.delta"
  /\ events1[1].arguments # <<>>
  /\ events1[2].type = "response.created"
  /\ events1[3] = CompletedEvent
  /\ functionCallArgs = events1[1].arguments
  /\ streamState = "closed"

IsArgsDelta(e) == e.type = "response.function_call_arguments.delta"

\* the fragments of the arguments deltas among the events, concatenated in order
RECURSIVE DeltaFragments(_)
DeltaFragments(events) ==
  IF events = <<>> THEN <<>>
  ELSE (IF IsArgsDelta(Head(events)) THEN Head(events).arguments ELSE <<>>)
       \o DeltaFragments(Tail(events))

\* the position of the last event satisfying the test, 0 when there is none
LastDoneWithArguments(events) ==
  LET hits == { i \in 1..Len(events) :
                  /\ events[i].type = "response.function_call_arguments.done"
                  /\ events[i].arguments # <<>> }
  IN  IF hits = {} THEN 0 ELSE CHOOSE i \in hits : \A j \in hits : j <= i

LastNameEvent(events) ==
  LET hits == { i \in 1..Len(events) : IsNameEvent(events[i]) }
  IN  IF hits = {} THEN 0 ELSE CHOOSE i \in hits : \A j \in hits : j <= i

\* every name event and every arguments delta has put exactly one chunk on
\* the output, holding its fragment and finish_reason null
MirroredFragments ==
  \A i \in 1..Len(events1) :
    LET e == events1[i]
        own == { k \in 1..Len(emitted) : emitted[k].phase = 1 /\ emitted[k].idx = i
                                         /\ emitted[k].frame # DoneFrame }
    IN  /\ IsNameEvent(e) =>
              /\ Cardinality(own) = 1
              /\ \A k \in own : emitted[k].frame = Chunk(UNDEF, e.name, UNDEFARGS, "null")
        /\ IsArgsDelta(e) =>
              /\ Cardinality(own) = 1
              /\ \A k \in own : emitted[k].frame = Chunk(UNDEF, UNDEF, e.arguments, "null")

\* the accumulated name is the name of the last name event
AnnouncedName ==
  LastNameEvent(events1) # 0
    => functionCallName = events1[LastNameEvent(events1)].name

\* C29 (as stated): Responses variant, streaming: every name event and every
\* arguments delta puts exactly one chunk with its fragment on the output, and
\* when response.completed arrives the argument buffer is the concatenation of
\* the fragments of all arguments deltas and the name is the announced name.
C29_Original ==
  (req.variant = "B" /\ req.stream)
  => /\ MirroredFragments
     /\ TerminatingObserved =>
          /\ functionCallArgs = DeltaFragments(events1)
          /\ AnnouncedName

\* C29 (amended): as above, but the argument buffer is the arguments of the
\* last response.function_call_arguments.done event that carried any,
\* followed by the fragments of the arguments deltas observed after it; it is
\* the concatenation of all fragments when no such event was observed.
C29_Amended ==
  (req.variant = "B" /\ req.stream)
  => /\ MirroredFragments
     /\ TerminatingObserved =>
          /\ LET k == LastDoneWithArguments(events1)
             IN  functionCallArgs
                   = (IF k = 0 THEN <<>> ELSE events1[k].arguments)
                     \o DeltaFragments(SubSeq(events1, k + 1, Len(events1)))
          /\ AnnouncedName

\* an arguments delta after a done event that carried arguments, then
\* response.completed
C29_Witness ==
  /\ req.variant = "B" /\ req.stream
  /\ Len(events1) = 3
  /\ LastDoneWithArguments(events1) = 1
  /\ IsArgsDelta(events1[2])
  /\ events1[3] = CompletedEvent
  /\ functionCallArgs = events1[1].arguments \o events1[2].arguments
  /\ streamState = "closed"

\* the initial backend response, or the terminating event of the initiating
\* stream, has been received
InitialReceived == IF req.stream THEN TerminatingObserved ELSE initial.some

\* a tool handler has been started and has neither returned nor thrown
ToolRunning ==
  /\ toolCalls # <<>>
  /\ toolResult = UNDEF
  /\ "tool" \notin faults

\* the input of a backend call holds the string the tool returned
ContainsResult(input) ==
  IF req.variant = "A"
  THEN \E i \in 1..Len(input) :
         input[i].role = "function" /\ input[i].content = toolResult
  ELSE /\ Len(input) >= Len(toolResult)
       /\ SubSeq(input, Len(input) - Len(toolResult) + 1, Len(input)) = toolResult

\* C30: within one request the tool handler is started only once the initial
\* response (or the terminating event of the initiating stream) is received,
\* the follow-up call is issued only once the handler has returned and holds
\* what it returned, and never are a handler and a backend call, or two
\* handlers, running together.
C30_HopOrdering ==
  /\ Len(toolCalls) <= 1
  /\ toolCalls # <<>> => (backendCalls # <<>> /\ InitialReceived)
  /\ Len(backendCalls) >= 2 =>
       /\ toolCalls # <<>>
       /\ toolResult \in ToolResults
       /\ backendCalls[2].phase = "followup"
       /\ ContainsResult(backendCalls[2].input)
  /\ ToolRunning => (Len(backendCalls) = 1 /\ InitialReceived /\ pc = "tool")
  /\ pc \in {"await_initial", "await_followup", "stream1", "stream2"} => ~ToolRunning

\* a streaming Responses request reads its follow-up stream after the tool
\* returned
C30_Witness ==
  /\ req.variant = "B" /\ req.stream
  /\ Len(toolCalls) = 1
  /\ toolResult \in ToolResults
  /\ Len(backendCalls) = 2
  /\ events2 # <<>>
  /\ pc = "stream2"

\* the raw argument string of the call that was executed
RawArguments ==
  IF req.stream THEN functionCallArgs ELSE SignalledCall.arguments

\* the two turns that follow the initial transcript in the follow-up input
SyntheticTurns ==
  << Message("assistant",
             "I'll call the function '" \o toolCalls[1].name
               \o "' with these arguments: " \o ArgText(RawArguments),
             UNDEF),
     Message("function", toolResult, toolCalls[1].name) >>

\* C31: Responses variant, streaming or not: the input of the follow-up call
\* is the flattened transcript of the initial call, unchanged, followed by one
\* assistant turn naming the called function and its raw argument string and
\* one function turn with the function's name and the string the tool returned.
C31_FollowUpTranscript ==
  (req.variant = "B" /\ Len(backendCalls) = 2)
  => LET first == backendCalls[1].input
         second == backendCalls[2].input
         full == fullMessages(req.messages.v)
     IN  /\ Len(toolCalls) = 1
         /\ first = messageContent(full)
         /\ SubSeq(second, 1, Len(first)) = first
         /\ second = messageContent(full \o SyntheticTurns)

\* a streaming Responses request with two caller messages has issued its
\* follow-up call after a call with arguments {}
C31_Witness ==
  /\ req.variant = "B" /\ req.stream
  /\ Len(backendCalls) = 2
  /\ Len(req.messages.v) = 2
  /\ functionCallArgs = << "{", "}" >>
  /\ toolResult \in ToolResults

\* the messages of the body as the request arrived with them
CallerMessages == IF req.body.messages.some THEN req.body.messages.v ELSE <<>>

\* C32: processing a request changes neither the caller's message array nor
\* the assembled initial array (no element changed, removed, reordered or
\* added): the follow-up conversation is a new sequence that has the initial
\* one as a prefix.
C32_AppendOnly ==
  /\ arrays.messages = CallerMessages
  /\ backendCalls # <<>> =>
       /\ arrays.fullMessages = << createSystemMessage >> \o CallerMessages
       /\ IF req.variant = "A"
          THEN backendCalls[1].input = arrays.fullMessages
          ELSE backendCalls[1].input = messageContent(arrays.fullMessages)
  /\ Len(backendCalls) = 2 =>
       LET first == backendCalls[1].input
           second == backendCalls[2].input
       IN  /\ Len(second) > Len(first)
           /\ SubSeq(second, 1, Len(first)) = first
           /\ req.variant = "A" =>
                /\ second = arrays.updatedMessages
                /\ Len(second) = Len(arrays.fullMessages) + 1

\* a Chat Completions request with two caller messages has returned its
\* follow-up completion
C32_Witness ==
  /\ req.variant = "A" /\ ~req.stream
  /\ Len(CallerMessages) = 2
  /\ Len(backendCalls) = 2
  /\ Len(arrays.updatedMessages) = 4
  /\ pc = "returned"

\* the middleware has called next(): the route handler has been entered
NextCalled == pc \notin {"arrived", "rejected", "unanswered"}

\* the middleware has answered 403
Answered403 == pc = "rejected" /\ http = "error403"

\* C33: in every environment, once validateRequest has returned it has either
\* answered 403 or called next(), never both and never neither.
C33_AuthProgress ==
  pc # "arrived" => (Answered403 /\ ~NextCalled) \/ (NextCalled /\ http # "error403")

\* the HTTP response has been ended: res.end() after the frames, or the 500
\* answer of the catch
ResponseEnded == http \in {"ended", "error500"}

\* C34: a streaming request whose output stream exists and which can take no
\* further step has its stream closed or errored and its HTTP response ended,
\* whatever finite event sequences the backend delivered, one that ends
\* without a terminating event included.
C34_StreamingTermination ==
  (req.stream /\ streamState # "none" /\ ~ENABLED Next)
  => /\ streamState \in {"closed", "errored"}
     /\ ResponseEnded

\* C35: in both variants and both modes the initial backend call carries the
\* registered tool schemas and the follow-up backend call carries none.
C35_ToolsOnInitialOnly ==
  \A i \in 1..Len(backendCalls) :
    /\ backendCalls[i].phase = "initial" <=> i = 1
    /\ backendCalls[i].tools <=> backendCalls[i].phase = "initial"

\* a non-streaming Responses request has issued both calls
C35_Witness ==
  /\ req.variant = "B" /\ ~req.stream
  /\ Len(backendCalls) = 2
  /\ backendCalls[1].tools
  /\ ~backendCalls[2].tools
  /\ backendCalls[2].phase = "followup"

\* C36: Responses variant, streaming: whatever the events of the initiating
\* and of the follow-up stream, the output holds at most one chunk with
\* finish_reason 'stop', and nothing but the DONE frame comes after it.
C36_SingleFinalChunk ==
  (req.variant = "B" /\ req.stream)
  => /\ StopChunkCount <= 1
     /\ \A i \in 1..Len(emitted) :
          emitted[i].frame = StopChunk
            => \A j \in (i + 1)..Len(emitted) : emitted[j].frame = DoneFrame

\* the initial response or the initiating stream has signalled a function
\* call whose name is missing or empty, or whose argument payload is empty
IncompleteSignal ==
  IF req.stream
  THEN /\ TerminatingObserved
       /\ IF req.variant = "A"
          THEN events1[Len(events1)].finish_reason = "function_call"
          ELSE functionCallInProgress
       /\ (functionCallName \in {"", UNDEF} \/ functionCallArgs = <<>>)
  ELSE /\ SignalsCall
       /\ (SignalledCall.name \in {"", UNDEF} \/ SignalledCall.arguments = <<>>)

\* C37: in every path a function-call signal without a name, or with an
\* empty argument payload, leads to no tool invocation and no follow-up call;
\* the non-streaming Chat Completions path then returns the initial response
\* unchanged.
C37_IncompleteSignal ==
  IncompleteSignal
  => /\ toolCalls = <<>>
     /\ Len(backendCalls) = 1
     /\ toolResult = UNDEF
     /\ (req.variant = "A" /\ ~req.stream) =>
          /\ result = Some(initial.v)
          /\ ~failure.some
          /\ http = "json200"

\* the Chat Completions variant returned an initial response that names
\* a registered tool with an empty payload
C37_Witness ==
  /\ req.variant = "A" /\ ~req.stream
  /\ SignalsCall
  /\ SignalledCall.name = "sendPhoto"
  /\ SignalledCall.arguments = <<>>
  /\ pc = "returned"

====
